---- MODULE Spec2Model ----
(***************************************************************************)
(* Model of the contextpilot codebase analyzer (package analyzer):         *)
(* Analyzer.Analyze walks the project tree with filepath.Walk, counts      *)
(* files per extension, converts the counts to Language entries, then      *)
(* runs detectFramework, analyzeStructure and detectPatterns.              *)
(*                                                                         *)
(* The filesystem is a function from relative paths (sequences of names)   *)
(* to entry kinds.  It is chosen in Init and never written afterwards.     *)
(* Each run of Analyze() has its own accumulators, indexed by run number.  *)
(***************************************************************************)
EXTENDS Integers, Sequences, FiniteSets, TLC

(***************************************************************************)
(* Bounds of the model                                                     *)
(***************************************************************************)
MaxEntries == 4      \* entries below the root in a language-walk tree
MaxDepth == 3        \* depth of the deepest entry in a language-walk tree
MaxDeps == 2         \* keys of "dependencies" in package.json
MaxDevDeps == 2      \* keys of "devDependencies" in package.json
MaxProbed == 3       \* entries below the root in a structure-probe tree
MaxRerun == 3        \* entries below the root in a tree analyzed twice
MaxConcurrent == 3   \* entries below the root in a tree analyzed by two calls at once
MaxSaves == 3        \* calls of Save
MaxCalls == 3        \* calls of Add and Delete
MaxListed == 5       \* decisions in the file the score is computed for
MaxUpdates == 2      \* updates by contextpilot save and contextpilot_save
MaxLines == 2        \* lines the server reads from stdin

(***************************************************************************)
(* Strings: strings.ToLower and filepath.Ext                               *)
(***************************************************************************)
UpperChars == "ABCDEFGHIJKLMNOPQRSTUVWXYZ"
LowerChars == "abcdefghijklmnopqrstuvwxyz"

CharAt(s, i) == SubSeq(s, i, i)

LowerChar(c) ==
    IF \E i \in 1..Len(UpperChars) : CharAt(UpperChars, i) = c
    THEN CharAt(LowerChars, CHOOSE i \in 1..Len(UpperChars) : CharAt(UpperChars, i) = c)
    ELSE c

RECURSIVE ToLower(_)
ToLower(s) ==
    IF Len(s) = 0 THEN ""
    ELSE LowerChar(CharAt(s, 1)) \o ToLower(SubSeq(s, 2, Len(s)))

\* for i := len(path)-1; i >= 0 && !IsPathSeparator(path[i]); i-- { if path[i]=='.' return path[i:] }
RECURSIVE ExtFrom(_, _)
ExtFrom(path, i) ==
    IF i < 1 \/ CharAt(path, i) = "/" THEN ""
    ELSE IF CharAt(path, i) = "." THEN SubSeq(path, i, Len(path))
    ELSE ExtFrom(path, i - 1)

Ext(path) == ExtFrom(path, Len(path))

\* filepath.Join of the root path and the names of a relative path
RECURSIVE JoinPath(_, _)
JoinPath(rootPath, p) ==
    IF p = <<>> THEN rootPath
    ELSE JoinPath(rootPath \o "/" \o Head(p), Tail(p))

(***************************************************************************)
(* Tables of the analyzer                                                  *)
(***************************************************************************)
gitIgnore ==
    << "node_modules", "vendor", ".git", "dist", "build",
       ".next", "__pycache__", ".venv", "venv", ".idea",
       ".vscode", "coverage", ".nyc_output" >>

codeExts ==
    { ".js", ".ts", ".jsx", ".tsx", ".go", ".py", ".rb", ".rs",
      ".java", ".kt", ".swift", ".c", ".cpp", ".h", ".cs", ".php",
      ".vue", ".svelte" }

isCodeFile(ext) == ext \in codeExts

langMap ==
    [e \in { ".js", ".ts", ".jsx", ".tsx", ".go", ".py", ".rb", ".rs",
             ".java", ".kt", ".swift", ".c", ".cpp", ".h", ".cs", ".php",
             ".vue", ".svelte" } |->
        CASE e = ".js" -> "JavaScript"
          [] e = ".ts" -> "TypeScript"
          [] e = ".jsx" -> "JavaScript (JSX)"
          [] e = ".tsx" -> "TypeScript (TSX)"
          [] e = ".go" -> "Go"
          [] e = ".py" -> "Python"
          [] e = ".rb" -> "Ruby"
          [] e = ".rs" -> "Rust"
          [] e = ".java" -> "Java"
          [] e = ".kt" -> "Kotlin"
          [] e = ".swift" -> "Swift"
          [] e = ".c" -> "C"
          [] e = ".cpp" -> "C++"
          [] e = ".h" -> "C/C++ Header"
          [] e = ".cs" -> "C#"
          [] e = ".php" -> "PHP"
          [] e = ".vue" -> "Vue"
          [] e = ".svelte" -> "Svelte"]

extensionToLanguage(ext) == IF ext \in DOMAIN langMap THEN langMap[ext] ELSE ""

contains(slice, item) == \E i \in 1..Len(slice) : slice[i] = item

(***************************************************************************)
(* The filesystem                                                          *)
(*   kind "file"      a non-directory entry                                *)
(*   kind "dir"       a directory that can be listed and searched          *)
(*   kind "dir_x"     a directory that can be searched but not listed      *)
(*   kind "dir_r"     a directory that can be listed but not searched      *)
(*   kind "dir_none"  a directory that can be neither listed nor searched  *)
(*   kind "missing"   (root only) the root path does not exist             *)
(***************************************************************************)
VARIABLE fs          \* [rootName, rootKind, tree, pkgJson]; read-only

DirKinds == {"dir", "dir_x", "dir_r", "dir_none"}
IsDirKind(k) == k \in DirKinds
Listable(k) == k \in {"dir", "dir_r"}
Searchable(k) == k \in {"dir", "dir_x"}

\* every name used in a tree, in the byte order os.ReadDir sorts by
NameOrder ==
    << ".contextpilot", ".cursorrules", ".github", "A.GO", "CLAUDE.md", "Makefile",
       "a.go", "api", "app", "app.py", "apps", "b.go", "c.py", "components",
       "config.yaml", "copilot-instructions.md", "d.md", "e.ts", "go.mod", "hooks", "index.js",
       "index.ts", "lerna.json", "lib", "main.go", "main.js", "main.py",
       "main.ts", "models", "node_modules", "package.json", "packages",
       "pages", "pkg", "pnpm-workspace.yaml", "pyproject.toml",
       "requirements.txt", "services", "src", "turbo.json", "types", "utils" >>

Parent(p) == SubSeq(p, 1, Len(p) - 1)
Last(p) == p[Len(p)]

KindOf(f, p) == IF p = <<>> THEN f.rootKind ELSE f.tree[p]

Exists(f, p) == IF p = <<>> THEN f.rootKind # "missing" ELSE p \in DOMAIN f.tree

\* os.Lstat / os.Stat of root/p: the entry exists and every directory
\* above it can be searched
StatOK(f, p) ==
    /\ Exists(f, p)
    /\ \A i \in 0..(Len(p) - 1) : Searchable(KindOf(f, SubSeq(p, 1, i)))

\* filepath.Base: what follows the last separator
RECURSIVE BaseFrom(_, _)
BaseFrom(s, i) ==
    IF i = 0 THEN s
    ELSE IF CharAt(s, i) = "/" THEN SubSeq(s, i + 1, Len(s))
    ELSE BaseFrom(s, i - 1)

Base(s) == BaseFrom(s, Len(s))

\* info.Name(): the base name of the path
BaseName(f, p) == IF p = <<>> THEN Base(f.rootName) ELSE Last(p)

\* readDirNames: the names in a directory, sorted
RECURSIVE SortedFrom(_, _)
SortedFrom(S, i) ==
    IF i > Len(NameOrder) THEN <<>>
    ELSE (IF NameOrder[i] \in S THEN <<NameOrder[i]>> ELSE <<>>) \o SortedFrom(S, i + 1)

readDirNames(f, p) ==
    SortedFrom({Last(q) : q \in {c \in DOMAIN f.tree : Parent(c) = p}}, 1)

RootPath(f) == "/w/" \o f.rootName

(***************************************************************************)
(* Input families: the trees and manifests Init draws from                 *)
(***************************************************************************)
\* trees of at most n entries over the candidate entries U (pairs
\* <<path, kind>>): every entry's parent is the root or a directory entry
CanAdd(T, u) ==
    /\ \A t \in T : t[1] # u[1]
    /\ \/ Len(u[1]) = 1
       \/ \E t \in T : t[1] = Parent(u[1]) /\ IsDirKind(t[2])

RECURSIVE TreesOver(_, _)
TreesOver(U, n) ==
    IF n = 0 THEN {{}}
    ELSE LET S == TreesOver(U, n - 1)
         IN  S \cup UNION { { T \cup {u} : u \in {v \in U : CanAdd(T, v)} } : T \in S }

AsTree(T) == [p \in {t[1] : t \in T} |-> (CHOOSE t \in T : t[1] = p)[2]]

NoPkg == [parses |-> FALSE, dependencies |-> <<>>, devDependencies |-> <<>>]

PlainFs(T, pkg) ==
    [rootName |-> "proj", rootKind |-> "dir", tree |-> AsTree(T), pkgJson |-> pkg]

\* language-walk family: code and non-code files at any depth, with a
\* pruned and an ordinary directory name
WalkFiles == {"A.GO", "Makefile", "a.go", "c.py", "d.md"}
WalkDirs == {"node_modules", "pkg"}

RECURSIVE WalkUniverse(_)
WalkUniverse(prefix) ==
    IF Len(prefix) >= MaxDepth THEN {}
    ELSE { <<Append(prefix, n), "file">> : n \in WalkFiles }
         \cup { <<Append(prefix, n), "dir">> : n \in WalkDirs }
         \cup UNION { WalkUniverse(Append(prefix, n)) : n \in WalkDirs }

WalkInputs == { PlainFs(T, NoPkg) : T \in TreesOver(WalkUniverse(<<>>), MaxEntries) }

\* the subsets of S with at most n elements
RECURSIVE SubsetsUpTo(_, _)
SubsetsUpTo(S, n) ==
    IF n = 0 THEN {{}}
    ELSE LET R == SubsetsUpTo(S, n - 1)
         IN  R \cup UNION { { T \cup {x} : x \in S \ T } : T \in R }

\* manifest family: package.json contents.  Every key has its own version
\* string, so a version copied from the wrong key shows.
DepKeys ==
    { "next", "express", "react", "vue", "svelte",
      "prisma", "@prisma/client", "drizzle-orm", "typeorm", "mongoose",
      "tailwindcss", "styled-components",
      "zustand", "@reduxjs/toolkit", "jotai", "recoil",
      "lodash", "vitest" }

DevDepKeys ==
    { "vitest", "jest", "mocha", "tailwindcss", "eslint", "prettier", "biome",
      "typescript", "prisma" }

VersionOf(k) == IF k = "next" THEN "^14.2.0" ELSE "^1.0.0+" \o k

DepMap(K) == [k \in K |-> VersionOf(k)]

PkgContents(nDeps, nDev, flags) ==
    { [parses |-> ok, dependencies |-> DepMap(D), devDependencies |-> DepMap(V)] :
        ok \in flags, D \in SubsetsUpTo(DepKeys, nDeps), V \in SubsetsUpTo(DevDepKeys, nDev) }

DependencyInputs ==
    { PlainFs({<< <<"package.json">>, "file" >>}, c) :
        c \in PkgContents(MaxDeps, 0, {TRUE}) \cup PkgContents(1, MaxDevDeps, {TRUE}) }

\* manager family: every combination of the four manifest files, with a
\* package.json that parses or not
ManifestUniverse ==
    { << <<n>>, "file" >> : n \in {"package.json", "go.mod", "pyproject.toml", "requirements.txt"} }

ManagerInputs ==
    UNION { IF << <<"package.json">>, "file" >> \in T
            THEN { PlainFs(T, c) : c \in PkgContents(1, 1, BOOLEAN) }
            ELSE { PlainFs(T, NoPkg) } :
            T \in TreesOver(ManifestUniverse, 4) }

\* folder family: the names analyzeStructure probes directly under the
\* root ("lib" as a directory or as a file)
FolderUniverse ==
    { << <<n>>, "dir" >> :
        n \in { "src", "app", "lib", "components", "pages", "api", "utils", "hooks",
                "services", "models", "types", "packages", "apps" } }
    \cup { << <<n>>, "file" >> :
        n \in { "lib", "pnpm-workspace.yaml", "lerna.json", "turbo.json" } }

FolderInputs == { PlainFs(T, NoPkg) : T \in TreesOver(FolderUniverse, MaxProbed) }

\* entry-point family: the candidates directly under the root and under
\* src and app
EntryFiles == { "index.ts", "index.js", "main.ts", "main.js", "main.go", "main.py", "app.py" }

EntryUniverse ==
    { << <<d>>, "dir" >> : d \in {"src", "app"} }
    \cup { << <<n>>, "file" >> : n \in EntryFiles }
    \cup { << <<d, n>>, "file" >> : d \in {"src", "app"}, n \in EntryFiles }

EntryInputs == { PlainFs(T, NoPkg) : T \in TreesOver(EntryUniverse, MaxProbed) }

\* the scenario of three .go files and one .md file
ScenarioInputs ==
    { PlainFs({ << <<n>>, "file" >> : n \in {"a.go", "b.go", "main.go", "d.md"} }, NoPkg) }

\* error family: a missing root, roots and directories that cannot be listed
\* or searched, and a root whose own name is on the ignore list
ErrorUniverse ==
    { << <<"a.go">>, "file" >>, << <<"package.json">>, "file" >>,
      << <<"pkg", "b.go">>, "file" >>, << <<"src", "index.ts">>, "file" >> }
    \cup { << <<d>>, k >> : d \in {"pkg", "src"}, k \in DirKinds }

ErrorPkg ==
    [parses |-> TRUE, dependencies |-> DepMap({"next"}), devDependencies |-> DepMap({"vitest"})]

ErrorFs(n, k, T) ==
    [rootName |-> n, rootKind |-> k, tree |-> AsTree(T),
     pkgJson |-> IF << <<"package.json">>, "file" >> \in T THEN ErrorPkg ELSE NoPkg]

ErrorInputs ==
    { [rootName |-> "proj", rootKind |-> "missing", tree |-> <<>>, pkgJson |-> NoPkg] }
    \cup { ErrorFs("proj", k, T) :
             k \in DirKinds, T \in TreesOver(ErrorUniverse, Cardinality(ErrorUniverse)) }
    \cup { ErrorFs("build", "dir", T) :
             T \in TreesOver(ErrorUniverse, Cardinality(ErrorUniverse)) }

\* rerun family: a few files of different languages directly under the root
RerunUniverse == { << <<n>>, "file" >> : n \in {"a.go", "c.py", "e.ts", "d.md", "index.js"} }

RerunInputs == { PlainFs(T, NoPkg) : T \in TreesOver(RerunUniverse, MaxRerun) }

\* concurrent family: files under the root and under the directory pkg,
\* which a second call can take as its root
ConcurrentUniverse ==
    { << <<"a.go">>, "file" >>, << <<"d.md">>, "file" >>, << <<"pkg">>, "dir" >>,
      << <<"pkg", "a.go">>, "file" >>, << <<"pkg", "c.py">>, "file" >>,
      << <<"pkg", "e.ts">>, "file" >> }

ConcurrentInputs == { PlainFs(T, NoPkg) : T \in TreesOver(ConcurrentUniverse, MaxConcurrent) }

Inputs ==
    WalkInputs \cup DependencyInputs \cup ManagerInputs \cup FolderInputs
    \cup EntryInputs \cup ScenarioInputs \cup ErrorInputs

(***************************************************************************)
(* State of the Analyze() calls                                            *)
(***************************************************************************)
VARIABLES
    analyzers,   \* Analyzer value -> its fields [rootPath, gitIgnore]
    recv,        \* run -> the Analyzer value Analyze() is called on
    pc,          \* run -> "idle" | "walk" | "convert" | "detect" | "done"
    stack,       \* run -> paths filepath.Walk still has to visit, next first
    walkErr,     \* run -> error returned by filepath.Walk ("nil" if none)
    extCount,    \* run -> map extension -> count
    totalFiles,  \* run -> counter
    analysis,    \* run -> the Analysis under construction
    ret          \* run -> "none" | "ok" | "error": what Analyze() returned

analyzerVars == <<fs, analyzers, recv, pc, stack, walkErr, extCount, totalFiles, analysis, ret>>

\* the calls of Analyze()
Runs == {1, 2}

\* the Analyzer values the calls are made on
AnalyzerIds == {1, 2}

\* New(rootPath)
New(rootPath) == [rootPath |-> rootPath, gitIgnore |-> gitIgnore]

\* the entry of the tree a root path names
Resolve(f, rootPath) ==
    CHOOSE p \in {<<>>} \cup DOMAIN f.tree : JoinPath(RootPath(f), p) = rootPath

SubTree(f, p) ==
    [q \in { SubSeq(c, Len(p) + 1, Len(c)) :
                c \in { d \in DOMAIN f.tree : Len(d) > Len(p) /\ SubSeq(d, 1, Len(p)) = p } } |->
        f.tree[p \o q]]

\* what the calls of run r see: the receiver's fields and the filesystem
\* below its rootPath
View(r) ==
    LET a == analyzers[recv[r]]
        p == Resolve(fs, a.rootPath)
    IN  IF p = <<>>
        THEN [rootName |-> fs.rootName, rootKind |-> fs.rootKind, tree |-> fs.tree,
              pkgJson |-> fs.pkgJson, gitIgnore |-> a.gitIgnore]
        ELSE [rootName |-> JoinPath(fs.rootName, p),
              rootKind |-> IF StatOK(fs, p) THEN fs.tree[p] ELSE "missing",
              tree |-> SubTree(fs, p),
              pkgJson |-> NoPkg,
              gitIgnore |-> a.gitIgnore]

NoFramework == [set |-> FALSE, name |-> "", version |-> ""]

\* the composite literal at the top of Analyze(); unset fields are zero values
NewAnalysis(f) ==
    [rootPath |-> RootPath(f),
     languages |-> <<>>,
     framework |-> NoFramework,
     structure |-> [type |-> "", srcDir |-> "", folders |-> <<>>, entryPoint |-> ""],
     packages |-> [manager |-> "", dependencies |-> <<>>, devDeps |-> <<>>],
     patterns |-> [namingConvention |-> "", exportStyle |-> "", testFramework |-> "",
                   linter |-> "", formatter |-> "", orm |-> "",
                   stateManagement |-> "", styling |-> ""],
     decisions |-> <<>>]

\* ext := strings.ToLower(filepath.Ext(path))
FileExt_noLower(f, p) == Ext(JoinPath(RootPath(f), p))

FileExt(f, p) == ToLower(Ext(JoinPath(RootPath(f), p)))

\* the loop over a.gitIgnore comparing info.Name()
IsIgnored_topLevelOnly(f, p) == Len(p) <= 1 /\ contains(f.gitIgnore, BaseName(f, p))

IsIgnored(f, p) == contains(f.gitIgnore, BaseName(f, p))

\* the callback handed to filepath.Walk: result and updated accumulators
walkFn(f, p, err, ec, total) ==
    IF err
    THEN [result |-> "nil", extCount |-> ec, totalFiles |-> total]
    ELSE IF IsDirKind(KindOf(f, p))
    THEN [result |-> IF IsIgnored(f, p) THEN "SkipDir" ELSE "nil",
          extCount |-> ec, totalFiles |-> total]
    ELSE LET ext == FileExt(f, p)
         IN  IF ext # "" /\ isCodeFile(ext)
             THEN [result |-> "nil",
                   extCount |-> IF ext \in DOMAIN ec
                                THEN [ec EXCEPT ![ext] = @ + 1]
                                ELSE [e \in DOMAIN ec \cup {ext} |->
                                         IF e = ext THEN 1 ELSE ec[e]],
                   totalFiles |-> total + 1]
             ELSE [result |-> "nil", extCount |-> ec, totalFiles |-> total]

\* Analyze() is called: fresh Analysis and accumulators, filepath.Walk starts
\* at the root
Analyze_appendsIgnore(r) ==
    /\ pc[r] = "idle"
    /\ analysis' = [analysis EXCEPT ![r] = NewAnalysis(View(r))]
    /\ extCount' = [extCount EXCEPT ![r] = <<>>]
    /\ totalFiles' = [totalFiles EXCEPT ![r] = 0]
    /\ stack' = [stack EXCEPT ![r] = << <<>> >>]
    /\ walkErr' = [walkErr EXCEPT ![r] = "nil"]
    /\ pc' = [pc EXCEPT ![r] = "walk"]
    /\ analyzers' = [analyzers EXCEPT ![recv[r]].gitIgnore = Append(@, ".contextpilot")]
    /\ UNCHANGED <<fs, recv, ret>>

Analyze(r) ==
    /\ pc[r] = "idle"
    /\ analysis' = [analysis EXCEPT ![r] = NewAnalysis(View(r))]
    /\ extCount' = [extCount EXCEPT ![r] = <<>>]
    /\ totalFiles' = [totalFiles EXCEPT ![r] = 0]
    /\ stack' = [stack EXCEPT ![r] = << <<>> >>]
    /\ walkErr' = [walkErr EXCEPT ![r] = "nil"]
    /\ pc' = [pc EXCEPT ![r] = "walk"]
    /\ UNCHANGED <<fs, analyzers, recv, ret>>

\* filepath.Walk visits the next path: lstat, list a directory, call walkFn,
\* descend unless the listing failed or walkFn said SkipDir
Visit_sharedCounts(r) ==
    /\ pc[r] = "walk"
    /\ stack[r] # <<>>
    /\ LET f == View(r)
           p == Head(stack[r])
           rest == Tail(stack[r])
           lstatErr == ~StatOK(f, p)
           isDir == ~lstatErr /\ IsDirKind(KindOf(f, p))
           listErr == isDir /\ ~Listable(KindOf(f, p))
           res == walkFn(f, p, lstatErr \/ listErr, extCount[1], totalFiles[1])
           children == [i \in 1..Len(readDirNames(f, p)) |->
                           Append(p, readDirNames(f, p)[i])]
       IN  /\ extCount' = [q \in Runs |-> res.extCount]
           /\ totalFiles' = [q \in Runs |-> res.totalFiles]
           /\ IF res.result \notin {"nil", "SkipDir"}
              THEN /\ walkErr' = [walkErr EXCEPT ![r] = res.result]
                   /\ stack' = [stack EXCEPT ![r] = <<>>]
              ELSE /\ walkErr' = walkErr
                   /\ stack' = [stack EXCEPT ![r] =
                          IF isDir /\ ~listErr /\ res.result = "nil"
                          THEN children \o rest
                          ELSE rest]
    /\ UNCHANGED <<fs, analyzers, recv, pc, analysis, ret>>

Visit(r) ==
    /\ pc[r] = "walk"
    /\ stack[r] # <<>>
    /\ LET f == View(r)
           p == Head(stack[r])
           rest == Tail(stack[r])
           lstatErr == ~StatOK(f, p)
           isDir == ~lstatErr /\ IsDirKind(KindOf(f, p))
           listErr == isDir /\ ~Listable(KindOf(f, p))
           res == walkFn(f, p, lstatErr \/ listErr, extCount[r], totalFiles[r])
           children == [i \in 1..Len(readDirNames(f, p)) |->
                           Append(p, readDirNames(f, p)[i])]
       IN  /\ extCount' = [extCount EXCEPT ![r] = res.extCount]
           /\ totalFiles' = [totalFiles EXCEPT ![r] = res.totalFiles]
           /\ IF res.result \notin {"nil", "SkipDir"}
              THEN /\ walkErr' = [walkErr EXCEPT ![r] = res.result]
                   /\ stack' = [stack EXCEPT ![r] = <<>>]
              ELSE /\ walkErr' = walkErr
                   /\ stack' = [stack EXCEPT ![r] =
                          IF isDir /\ ~listErr /\ res.result = "nil"
                          THEN children \o rest
                          ELSE rest]
    /\ UNCHANGED <<fs, analyzers, recv, pc, analysis, ret>>

\* os.ReadFile(root/p) succeeds: a non-directory entry that can be reached
ReadFileOK(f, p) == StatOK(f, p) /\ KindOf(f, p) = "file"

has(m, k) == k \in DOMAIN m

(***************************************************************************)
(* detectFramework: package.json, then go.mod, then pyproject.toml /       *)
(* requirements.txt                                                        *)
(***************************************************************************)
FrameworkOf_reactFirst(deps, old) ==
    IF has(deps, "react") THEN [set |-> TRUE, name |-> "React", version |-> deps["react"]]
    ELSE IF has(deps, "next") THEN [set |-> TRUE, name |-> "Next.js", version |-> deps["next"]]
    ELSE IF has(deps, "express") THEN [set |-> TRUE, name |-> "Express", version |-> deps["express"]]
    ELSE IF has(deps, "vue") THEN [set |-> TRUE, name |-> "Vue.js", version |-> deps["vue"]]
    ELSE IF has(deps, "svelte") THEN [set |-> TRUE, name |-> "Svelte", version |-> deps["svelte"]]
    ELSE old

FrameworkOf(deps, old) ==
    IF has(deps, "next") THEN [set |-> TRUE, name |-> "Next.js", version |-> deps["next"]]
    ELSE IF has(deps, "express") THEN [set |-> TRUE, name |-> "Express", version |-> deps["express"]]
    ELSE IF has(deps, "react") THEN [set |-> TRUE, name |-> "React", version |-> deps["react"]]
    ELSE IF has(deps, "vue") THEN [set |-> TRUE, name |-> "Vue.js", version |-> deps["vue"]]
    ELSE IF has(deps, "svelte") THEN [set |-> TRUE, name |-> "Svelte", version |-> deps["svelte"]]
    ELSE old

OrmOf(deps, old) ==
    IF has(deps, "prisma") THEN "Prisma"
    ELSE IF has(deps, "@prisma/client") THEN "Prisma"
    ELSE IF has(deps, "drizzle-orm") THEN "Drizzle"
    ELSE IF has(deps, "typeorm") THEN "TypeORM"
    ELSE IF has(deps, "mongoose") THEN "Mongoose"
    ELSE old

TestFrameworkOf_jestFirst(dev, old) ==
    IF has(dev, "jest") THEN "Jest"
    ELSE IF has(dev, "vitest") THEN "Vitest"
    ELSE IF has(dev, "mocha") THEN "Mocha"
    ELSE old

TestFrameworkOf(dev, old) ==
    IF has(dev, "vitest") THEN "Vitest"
    ELSE IF has(dev, "jest") THEN "Jest"
    ELSE IF has(dev, "mocha") THEN "Mocha"
    ELSE old

StylingOf(deps, dev, old) ==
    IF has(deps, "tailwindcss") THEN "Tailwind CSS"
    ELSE IF has(dev, "tailwindcss") THEN "Tailwind CSS"
    ELSE IF has(deps, "styled-components") THEN "Styled Components"
    ELSE old

StateManagementOf(deps, old) ==
    IF has(deps, "zustand") THEN "Zustand"
    ELSE IF has(deps, "@reduxjs/toolkit") THEN "Redux Toolkit"
    ELSE IF has(deps, "jotai") THEN "Jotai"
    ELSE IF has(deps, "recoil") THEN "Recoil"
    ELSE old

LinterOf(dev, old) == IF has(dev, "eslint") THEN "ESLint" ELSE old

FormatterOf(dev, old) ==
    IF has(dev, "prettier") THEN "Prettier"
    ELSE IF has(dev, "biome") THEN "Biome"
    ELSE old

\* the block guarded by os.ReadFile(pkgPath) and json.Unmarshal succeeding
PackageJsonParses_ignoreErr(f) == ReadFileOK(f, <<"package.json">>)

PackageJsonParses(f) == ReadFileOK(f, <<"package.json">>) /\ f.pkgJson.parses

detectNpm(f, an) ==
    IF PackageJsonParses(f)
    THEN LET deps == f.pkgJson.dependencies
             dev == f.pkgJson.devDependencies
         IN  [an EXCEPT
                !.packages = [manager |-> "npm", dependencies |-> deps, devDeps |-> dev],
                !.framework = FrameworkOf(deps, @),
                !.patterns = [@ EXCEPT
                    !.orm = OrmOf(deps, @),
                    !.testFramework = TestFrameworkOf(dev, @),
                    !.styling = StylingOf(deps, dev, @),
                    !.stateManagement = StateManagementOf(deps, @),
                    !.linter = LinterOf(dev, @),
                    !.formatter = FormatterOf(dev, @)]]
    ELSE an

detectGoMod(f, an) ==
    IF StatOK(f, <<"go.mod">>) THEN [an EXCEPT !.packages.manager = "go"] ELSE an

detectPython(f, an) ==
    IF StatOK(f, <<"pyproject.toml">>) THEN [an EXCEPT !.packages.manager = "poetry/pip"]
    ELSE IF StatOK(f, <<"requirements.txt">>) THEN [an EXCEPT !.packages.manager = "pip"]
    ELSE an

detectFramework_npmLast(f, an) == detectNpm(f, detectPython(f, detectGoMod(f, an)))

detectFramework(f, an) == detectPython(f, detectGoMod(f, detectNpm(f, an)))

(***************************************************************************)
(* analyzeStructure                                                        *)
(***************************************************************************)
commonDirs ==
    << "src", "app", "lib", "components", "pages", "api", "utils", "hooks",
       "services", "models", "types" >>

entryPoints ==
    << "index.ts", "index.js", "main.ts", "main.js", "main.go", "main.py", "app.py" >>

\* the loop over commonDirs: os.Stat succeeds and info.IsDir()
FoundDirs_anyKind(f, i) ==
    SelectSeq(SubSeq(commonDirs, i, Len(commonDirs)), LAMBDA n : StatOK(f, <<n>>))

RECURSIVE FoundDirs(_, _)
FoundDirs(f, i) ==
    IF i > Len(commonDirs) THEN <<>>
    ELSE (IF StatOK(f, <<commonDirs[i]>>) /\ IsDirKind(KindOf(f, <<commonDirs[i]>>))
          THEN <<commonDirs[i]>> ELSE <<>>) \o FoundDirs(f, i + 1)

SrcDirOf(foundDirs, old) ==
    IF contains(foundDirs, "src") THEN "src"
    ELSE IF contains(foundDirs, "app") THEN "app"
    ELSE old

\* the loop over monorepoIndicators: os.Stat succeeds on one of them
IsMonorepo_dirsOnly(f) ==
    \/ StatOK(f, <<"packages">>)
    \/ StatOK(f, <<"apps">>)

IsMonorepo(f) ==
    \/ StatOK(f, <<"packages">>)
    \/ StatOK(f, <<"apps">>)
    \/ StatOK(f, <<"pnpm-workspace.yaml">>)
    \/ StatOK(f, <<"lerna.json">>)
    \/ StatOK(f, <<"turbo.json">>)

\* the loop over entryPoints: for each name, the root first, then srcDir
EntryPointFrom_rootFirst(f, srcDir, i, old) ==
    LET atRoot == { j \in i..Len(entryPoints) : StatOK(f, <<entryPoints[j]>>) }
        atSrc == { j \in i..Len(entryPoints) :
                     srcDir # "" /\ StatOK(f, <<srcDir, entryPoints[j]>>) }
    IN  IF atRoot # {}
        THEN entryPoints[CHOOSE j \in atRoot : \A k \in atRoot : j <= k]
        ELSE IF atSrc # {}
        THEN srcDir \o "/" \o entryPoints[CHOOSE j \in atSrc : \A k \in atSrc : j <= k]
        ELSE old

RECURSIVE EntryPointFrom(_, _, _, _)
EntryPointFrom(f, srcDir, i, old) ==
    IF i > Len(entryPoints) THEN old
    ELSE IF StatOK(f, <<entryPoints[i]>>) THEN entryPoints[i]
    ELSE IF srcDir # "" /\ StatOK(f, <<srcDir, entryPoints[i]>>)
         THEN srcDir \o "/" \o entryPoints[i]
    ELSE EntryPointFrom(f, srcDir, i + 1, old)

\* Type starts as "standard" and becomes "monorepo" on an indicator
analyzeStructure_noDefault(f, an) ==
    LET foundDirs == FoundDirs(f, 1)
        srcDir == SrcDirOf(foundDirs, an.structure.srcDir)
    IN  [an EXCEPT !.structure =
            [type |-> IF IsMonorepo(f) THEN "monorepo" ELSE an.structure.type,
             srcDir |-> srcDir,
             folders |-> foundDirs,
             entryPoint |-> EntryPointFrom(f, srcDir, 1, an.structure.entryPoint)]]

analyzeStructure(f, an) ==
    LET foundDirs == FoundDirs(f, 1)
        srcDir == SrcDirOf(foundDirs, an.structure.srcDir)
    IN  [an EXCEPT !.structure =
            [type |-> IF IsMonorepo(f) THEN "monorepo" ELSE "standard",
             srcDir |-> srcDir,
             folders |-> foundDirs,
             entryPoint |-> EntryPointFrom(f, srcDir, 1, an.structure.entryPoint)]]

(***************************************************************************)
(* detectPatterns: the first entry of Languages that is Go, Python,        *)
(* TypeScript or JavaScript decides                                        *)
(***************************************************************************)
RECURSIVE PatternsFrom(_, _, _)
PatternsFrom(langs, i, pat) ==
    IF i > Len(langs) THEN pat
    ELSE IF langs[i].name = "Go"
         THEN [pat EXCEPT !.namingConvention = "camelCase/PascalCase",
                          !.exportStyle = "named (capitalized)"]
    ELSE IF langs[i].name = "Python"
         THEN [pat EXCEPT !.namingConvention = "snake_case"]
    ELSE IF langs[i].name = "TypeScript" \/ langs[i].name = "JavaScript"
         THEN [pat EXCEPT !.namingConvention = "camelCase", !.exportStyle = "mixed"]
    ELSE PatternsFrom(langs, i + 1, pat)

detectPatterns(an) ==
    IF an.patterns.namingConvention = ""
    THEN [an EXCEPT !.patterns = PatternsFrom(an.languages, 1, @)]
    ELSE an

(***************************************************************************)
(* The rest of Analyze()                                                   *)
(***************************************************************************)
\* the orders in which "for ext, count := range extCount" can enumerate
RangeOrders(m) ==
    { s \in [1..Cardinality(DOMAIN m) -> DOMAIN m] :
        \A i, j \in DOMAIN s : i # j => s[i] # s[j] }

\* percentage is the quotient count/totalFiles*100, kept as the fraction
\* num/den (the rounding of float64 is not represented)
LanguageOf_noScale(ext, count, total) ==
    [name |-> extensionToLanguage(ext), extension |-> ext, fileCount |-> count,
     percentage |-> [num |-> count, den |-> total]]

LanguageOf(ext, count, total) ==
    [name |-> extensionToLanguage(ext), extension |-> ext, fileCount |-> count,
     percentage |-> [num |-> count * 100, den |-> total]]

HasName(lang) == lang.name # ""

ConvertLanguages(order, ec, total) ==
    SelectSeq([i \in 1..Len(order) |-> LanguageOf(order[i], ec[order[i]], total)], HasName)

\* filepath.Walk has returned: fail on its error, else convert the counts to
\* Language entries in the map's enumeration order
Convert(r) ==
    /\ pc[r] = "walk"
    /\ stack[r] = <<>>
    /\ IF walkErr[r] # "nil"
       THEN /\ pc' = [pc EXCEPT ![r] = "done"]
            /\ ret' = [ret EXCEPT ![r] = "error"]
            /\ analysis' = analysis
       ELSE /\ \E order \in RangeOrders(extCount[r]) :
                 analysis' = [analysis EXCEPT ![r].languages =
                     @ \o ConvertLanguages(order, extCount[r], totalFiles[r])]
            /\ pc' = [pc EXCEPT ![r] = "detect"]
            /\ ret' = ret
    /\ UNCHANGED <<fs, analyzers, recv, stack, walkErr, extCount, totalFiles>>

\* detectFramework, analyzeStructure, detectPatterns, return analysis, nil
Detect(r) ==
    /\ pc[r] = "detect"
    /\ analysis' = [analysis EXCEPT ![r] =
           detectPatterns(analyzeStructure(View(r), detectFramework(View(r), @)))]
    /\ pc' = [pc EXCEPT ![r] = "done"]
    /\ ret' = [ret EXCEPT ![r] = "ok"]
    /\ UNCHANGED <<fs, analyzers, recv, stack, walkErr, extCount, totalFiles>>

(***************************************************************************)
(* Sessions (package session): one JSON file per branch under              *)
(* .contextpilot/sessions, and history.json                                *)
(***************************************************************************)
VARIABLES
    gitHead,       \* .git/HEAD: [exists, content]
    sessionFiles,  \* file name in sessionsDir -> the JSON document in it
    history,       \* history.json: the JSON documents in it, oldest first
    clock,         \* the last value time.Now() returned
    loaded,        \* what the last call of Load() returned, until the next call
    lastSave       \* branch -> the session as a Save with empty Branch left it
                   \* while on that branch, until another Save or Clear there

sessionVars == <<gitHead, sessionFiles, history, clock, loaded, lastSave>>

Branches == {"main", "feature/x", "feature_x"}

\* what git writes to HEAD on a branch, and on a detached commit
HeadRef(b) == [exists |-> TRUE, content |-> "ref: refs/heads/" \o b \o "\n"]
Detached == [exists |-> TRUE, content |-> "4b825dc642cb6eb9a060e54bf8d69288fbee4904\n"]
NoGit == [exists |-> FALSE, content |-> ""]

Heads == { HeadRef(b) : b \in Branches } \cup {Detached, NoGit}

getCurrentBranch(head) ==
    IF /\ head.exists
       /\ Len(head.content) > 16
       /\ SubSeq(head.content, 1, 16) = "ref: refs/heads/"
    THEN SubSeq(head.content, 17, Len(head.content) - 1)
    ELSE "main"

RECURSIVE sanitizeFrom(_, _)
sanitizeFrom(branch, i) ==
    IF i > Len(branch) THEN ""
    ELSE (IF CharAt(branch, i) = "/" \/ CharAt(branch, i) = "\\" THEN "_"
          ELSE CharAt(branch, i)) \o sanitizeFrom(branch, i + 1)

sanitizeBranch(branch) == sanitizeFrom(branch, 1)

\* fmt.Sprintf("%d", n) for n >= 0
DigitChars == <<"0", "1", "2", "3", "4", "5", "6", "7", "8", "9">>

RECURSIVE IntToString(_)
IntToString(n) ==
    IF n < 10 THEN DigitChars[n + 1]
    ELSE IntToString(n \div 10) \o DigitChars[(n % 10) + 1]

\* the zero value of Session
ZeroSession ==
    [ID |-> "", Branch |-> "", Task |-> "", Goal |-> "", Approaches |-> <<>>,
     Decisions |-> <<>>, State |-> "", NextSteps |-> <<>>, Notes |-> "",
     CreatedAt |-> 0, UpdatedAt |-> 0]

\* json.MarshalIndent(s): a document from keys to values; the omitempty
\* fields are left out when empty
StringKeys == {"goal", "state", "notes"}
SliceKeys == {"approaches", "decisions", "nextSteps"}

FieldOf(s, k) ==
    CASE k = "id" -> s.ID
      [] k = "branch" -> s.Branch
      [] k = "task" -> s.Task
      [] k = "goal" -> s.Goal
      [] k = "approaches" -> s.Approaches
      [] k = "decisions" -> s.Decisions
      [] k = "state" -> s.State
      [] k = "nextSteps" -> s.NextSteps
      [] k = "notes" -> s.Notes
      [] k = "createdAt" -> s.CreatedAt
      [] k = "updatedAt" -> s.UpdatedAt

Marshal(s) ==
    [k \in {"id", "branch", "task", "createdAt", "updatedAt"}
           \cup { j \in StringKeys : FieldOf(s, j) # "" }
           \cup { j \in SliceKeys : FieldOf(s, j) # <<>> } |-> FieldOf(s, k)]

\* json.Unmarshal(data, &s) into a zero Session
Unmarshal(doc) ==
    [ID |-> doc["id"], Branch |-> doc["branch"], Task |-> doc["task"],
     Goal |-> IF "goal" \in DOMAIN doc THEN doc["goal"] ELSE "",
     Approaches |-> IF "approaches" \in DOMAIN doc THEN doc["approaches"] ELSE <<>>,
     Decisions |-> IF "decisions" \in DOMAIN doc THEN doc["decisions"] ELSE <<>>,
     State |-> IF "state" \in DOMAIN doc THEN doc["state"] ELSE "",
     NextSteps |-> IF "nextSteps" \in DOMAIN doc THEN doc["nextSteps"] ELSE <<>>,
     Notes |-> IF "notes" \in DOMAIN doc THEN doc["notes"] ELSE "",
     CreatedAt |-> doc["createdAt"], UpdatedAt |-> doc["updatedAt"]]

\* os.WriteFile / os.Remove on the sessions directory
WriteFile(files, name, doc) ==
    [n \in DOMAIN files \cup {name} |-> IF n = name THEN doc ELSE files[n]]

RemoveFile(files, name) == [n \in DOMAIN files \ {name} |-> files[n]]

HistoryCap == 100

appendHistory_keepOldest(h, s) ==
    LET all == Append(h, Marshal(s))
    IN  IF Len(all) > HistoryCap THEN SubSeq(all, 1, HistoryCap) ELSE all

appendHistory(h, s) ==
    LET all == Append(h, Marshal(s))
    IN  IF Len(all) > HistoryCap
        THEN SubSeq(all, Len(all) - HistoryCap + 1, Len(all))
        ELSE all

\* the sessions callers hand to Save: a new one (cmd/save.go builds
\* &session.Session{} and fills in the flags), or the one Load() returned
\* with a new task
NewSession(task, rich) ==
    [ZeroSession EXCEPT
        !.Task = task,
        !.Goal = IF rich THEN "ship it" ELSE "",
        !.Approaches = IF rich THEN <<"retry", "mutex">> ELSE <<>>,
        !.Decisions = IF rich THEN <<"use redis">> ELSE <<>>,
        !.State = IF rich THEN "half done" ELSE "",
        !.NextSteps = IF rich THEN <<"write tests">> ELSE <<>>,
        !.Notes = IF rich THEN "see #12" ELSE ""]

CurrentFile(head) == sanitizeBranch(getCurrentBranch(head)) \o ".json"

SaveInputs ==
    { NewSession("fix login", TRUE), NewSession("add cache", FALSE) }
    \cup (IF CurrentFile(gitHead) \in DOMAIN sessionFiles
          THEN { [Unmarshal(sessionFiles[CurrentFile(gitHead)]) EXCEPT !.Task = "polish"] }
          ELSE {})

NotLoaded == [called |-> FALSE, found |-> FALSE, session |-> ZeroSession]
NotSaved == [set |-> FALSE, session |-> ZeroSession]

\* the branch git is on (none on a detached HEAD or outside a repository)
OnBranch(b) == gitHead = HeadRef(b)

\* the branch the program takes itself to be on
TakenFor(b) == getCurrentBranch(gitHead) = b

\* Save giving every session a new ID and CreatedAt
Save_freshId(s) ==
    /\ clock < MaxSaves
    /\ LET now == clock + 1
           s1 == [s EXCEPT !.ID = IntToString(now), !.CreatedAt = now]
           s2 == [s1 EXCEPT !.UpdatedAt = now]
           s3 == IF s2.Branch = ""
                 THEN [s2 EXCEPT !.Branch = getCurrentBranch(gitHead)]
                 ELSE s2
           filename == sanitizeBranch(s3.Branch) \o ".json"
       IN  /\ sessionFiles' = WriteFile(sessionFiles, filename, Marshal(s3))
           /\ history' = appendHistory(history, s3)
           /\ clock' = now
           /\ lastSave' = [b \in Branches |->
                  IF OnBranch(b) /\ s.Branch = "" THEN [set |-> TRUE, session |-> s3]
                  ELSE IF TakenFor(b) \/ s3.Branch = b THEN NotSaved
                  ELSE lastSave[b]]
    /\ loaded' = NotLoaded
    /\ UNCHANGED gitHead

\* Save(s)
Save(s) ==
    /\ clock < MaxSaves
    /\ LET now == clock + 1
           s1 == IF s.ID = ""
                 THEN [s EXCEPT !.ID = IntToString(now), !.CreatedAt = now]
                 ELSE s
           s2 == [s1 EXCEPT !.UpdatedAt = now]
           s3 == IF s2.Branch = ""
                 THEN [s2 EXCEPT !.Branch = getCurrentBranch(gitHead)]
                 ELSE s2
           filename == sanitizeBranch(s3.Branch) \o ".json"
       IN  /\ sessionFiles' = WriteFile(sessionFiles, filename, Marshal(s3))
           /\ history' = appendHistory(history, s3)
           /\ clock' = now
           /\ lastSave' = [b \in Branches |->
                  IF OnBranch(b) /\ s.Branch = "" THEN [set |-> TRUE, session |-> s3]
                  ELSE IF TakenFor(b) \/ s3.Branch = b THEN NotSaved
                  ELSE lastSave[b]]
    /\ loaded' = NotLoaded
    /\ UNCHANGED gitHead

\* Load()
Load ==
    /\ LET filename == sanitizeBranch(getCurrentBranch(gitHead)) \o ".json"
       IN  loaded' = IF filename \in DOMAIN sessionFiles
                     THEN [called |-> TRUE, found |-> TRUE,
                           session |-> Unmarshal(sessionFiles[filename])]
                     ELSE [called |-> TRUE, found |-> FALSE, session |-> ZeroSession]
    /\ UNCHANGED <<gitHead, sessionFiles, history, clock, lastSave>>

\* Clear()
Clear ==
    /\ LET filename == sanitizeBranch(getCurrentBranch(gitHead)) \o ".json"
       IN  sessionFiles' = RemoveFile(sessionFiles, filename)
    /\ lastSave' = [b \in Branches |-> IF TakenFor(b) THEN NotSaved ELSE lastSave[b]]
    /\ loaded' = NotLoaded
    /\ UNCHANGED <<gitHead, history, clock>>

\* git checkout outside the program: HEAD changes
Checkout(head) ==
    /\ head # gitHead
    /\ gitHead' = head
    /\ loaded' = NotLoaded
    /\ UNCHANGED <<sessionFiles, history, clock, lastSave>>

InitSessions ==
    /\ gitHead \in Heads
    /\ sessionFiles = <<>>
    /\ history = <<>>
    /\ clock = 0
    /\ loaded = NotLoaded
    /\ lastSave = [b \in Branches |-> NotSaved]

(***************************************************************************)
(* The session history (history.json) and GetHistory                       *)
(***************************************************************************)
VARIABLES
    saved,         \* every session handed to a successful Save, as saved, in save order
    shown          \* what the last GetHistory returned

historyVars == <<saved, shown>>

NotShown == [called |-> FALSE, limit |-> 0, sessions |-> <<>>]

\* the session Save(s) stores at time now on the branch taken for current
Snapshot(s, now, branch) ==
    [s EXCEPT !.ID = IF s.ID = "" THEN IntToString(now) ELSE @,
              !.CreatedAt = IF s.ID = "" THEN now ELSE @,
              !.UpdatedAt = now,
              !.Branch = IF @ = "" THEN branch ELSE @]

\* a successful Save(s)
SaveLogged(s) ==
    /\ Save(s)
    /\ saved' = Append(saved, Snapshot(s, clock + 1, getCurrentBranch(gitHead)))
    /\ shown' = NotShown

\* git checkout between two calls
Switch(head) ==
    /\ Checkout(head)
    /\ shown' = NotShown
    /\ UNCHANGED saved

BranchFilter(sessions, branch) == SelectSeq(sessions, LAMBDA x : x.Branch = branch)

LastOf(sessions, limit) ==
    IF limit > 0 /\ Len(sessions) > limit
    THEN SubSeq(sessions, Len(sessions) - limit + 1, Len(sessions))
    ELSE sessions

\* GetHistory(limit)
GetHistory(limit) ==
    /\ ~shown.called
    /\ LET decoded == [i \in DOMAIN history |-> Unmarshal(history[i])]
           filtered == BranchFilter(decoded, getCurrentBranch(gitHead))
       IN  shown' = [called |-> TRUE, limit |-> limit, sessions |-> LastOf(filtered, limit)]
    /\ UNCHANGED <<sessionVars, saved>>

Limits == {2}

\* the saves made before the ones followed here: new sessions at earlier
\* times, on main and on feature/x in turn
EarlierSave(i, n) ==
    LET t == i - n
    IN  [ZeroSession EXCEPT
            !.ID = IF t = 0 THEN "0" ELSE "-" \o IntToString(0 - t),
            !.Branch = IF i % 2 = 0 THEN "main" ELSE "feature/x",
            !.Task = "earlier",
            !.CreatedAt = t,
            !.UpdatedAt = t]

EarlierSaves == {0, HistoryCap - 1, HistoryCap}

InitHistory(n) ==
    /\ gitHead \in Heads
    /\ saved = [i \in 1..n |-> EarlierSave(i, n)]
    /\ history = [i \in 1..(IF n > HistoryCap THEN HistoryCap ELSE n) |->
                     Marshal(EarlierSave(i + (IF n > HistoryCap THEN n - HistoryCap ELSE 0), n))]
    /\ sessionFiles =
           [f \in (IF n >= 2 THEN {"main.json", "feature_x.json"}
                   ELSE IF n = 1 THEN {"feature_x.json"} ELSE {}) |->
               Marshal(EarlierSave(IF (f = "main.json") = (n % 2 = 0) THEN n ELSE n - 1, n))]
    /\ clock = 0
    /\ loaded = NotLoaded
    /\ lastSave = [b \in Branches |-> NotSaved]
    /\ shown = NotShown

HistoryIdle == saved = <<>> /\ shown = NotShown

(***************************************************************************)
(* Updates of the session: contextpilot save (cmd/save.go) and the tool    *)
(* contextpilot_save (mcp/server.go), both load, modify and save           *)
(***************************************************************************)
VARIABLES
    lastUpdate,    \* the last update: its arguments, what Load() returned to it
                   \* and what Load() returns after it
    streak          \* the updates made in a row on one branch: the branch and the
                   \* ID and CreatedAt stored by the first of them

updateVars == <<lastUpdate, streak>>

NoUpdate ==
    [op |-> "none", args |-> <<>>, found |-> FALSE, prior |-> ZeroSession,
     stored |-> ZeroSession, at |-> 0]

NoStreak == [set |-> FALSE, branch |-> "", ID |-> "", CreatedAt |-> 0]

\* mgr.Load() with the error dropped: the session, or none
Prior ==
    IF CurrentFile(gitHead) \in DOMAIN sessionFiles
    THEN [found |-> TRUE, session |-> Unmarshal(sessionFiles[CurrentFile(gitHead)])]
    ELSE [found |-> FALSE, session |-> ZeroSession]

\* the bookkeeping of an update that saved
Updated(op, args) ==
    LET stored == Unmarshal(sessionFiles'[CurrentFile(gitHead)])
        branch == getCurrentBranch(gitHead)
    IN  /\ clock < MaxUpdates
        /\ lastUpdate' = [op |-> op, args |-> args, found |-> Prior.found,
                          prior |-> Prior.session, stored |-> stored, at |-> clock']
        /\ streak' = IF streak.set /\ streak.branch = branch THEN streak
                    ELSE [set |-> TRUE, branch |-> branch, ID |-> stored.ID,
                          CreatedAt |-> stored.CreatedAt]

\* json.Unmarshal(args, &params): an argument that is not given stays ""
Arg(args, k) == IF k \in DOMAIN args THEN args[k] ELSE ""

\* the arguments of a contextpilot_save call: all four, the task with the
\* others empty, none at all
ToolArgs ==
    { [k \in {"task", "goal", "state", "notes"} |->
          CASE k = "task" -> "fix login" [] k = "goal" -> "go live"
            [] k = "state" -> "half done" [] OTHER -> "see #12"],
      [k \in {"task", "goal", "state", "notes"} |-> IF k = "task" THEN "polish" ELSE ""],
      <<>> }

\* toolSave replacing the task only when one is given
toolSave_keepTask(args) ==
    /\ LET sess == Prior.session
           s1 == IF Arg(args, "task") # "" THEN [sess EXCEPT !.Task = Arg(args, "task")]
                 ELSE sess
           s2 == IF Arg(args, "goal") # "" THEN [s1 EXCEPT !.Goal = Arg(args, "goal")] ELSE s1
           s3 == IF Arg(args, "state") # "" THEN [s2 EXCEPT !.State = Arg(args, "state")] ELSE s2
           s4 == IF Arg(args, "notes") # "" THEN [s3 EXCEPT !.Notes = Arg(args, "notes")] ELSE s3
       IN  Save(s4)
    /\ Updated("toolSave", args)
    /\ UNCHANGED historyVars

\* toolSave(args)
toolSave(args) ==
    /\ LET sess == Prior.session
           s1 == [sess EXCEPT !.Task = Arg(args, "task")]
           s2 == IF Arg(args, "goal") # "" THEN [s1 EXCEPT !.Goal = Arg(args, "goal")] ELSE s1
           s3 == IF Arg(args, "state") # "" THEN [s2 EXCEPT !.State = Arg(args, "state")] ELSE s2
           s4 == IF Arg(args, "notes") # "" THEN [s3 EXCEPT !.Notes = Arg(args, "notes")] ELSE s3
       IN  Save(s4)
    /\ Updated("toolSave", args)
    /\ UNCHANGED historyVars

\* interactiveSession(s) for a session without a task: the lines typed
interactiveSession(s, cli) ==
    [s EXCEPT !.Task = cli.typedTask,
              !.Goal = IF cli.typedGoal # "" THEN cli.typedGoal ELSE @,
              !.Approaches = @ \o cli.typedApproaches,
              !.State = IF cli.typedState # "" THEN cli.typedState ELSE @,
              !.NextSteps = @ \o cli.typedNextSteps,
              !.Notes = IF cli.typedNotes # "" THEN cli.typedNotes ELSE @]

\* the command lines of contextpilot save: a task with flags, and no task,
\* where the session is typed in if the one loaded has no task either
CliInputs ==
    { [task |-> "fix login", goal |-> "ship it", state |-> "half done", notes |-> "",
       quick |-> FALSE, typedTask |-> "", typedGoal |-> "", typedApproaches |-> <<>>,
       typedState |-> "", typedNextSteps |-> <<>>, typedNotes |-> ""],
      [task |-> "", goal |-> "", state |-> "", notes |-> "",
       quick |-> FALSE, typedTask |-> "add cache", typedGoal |-> "faster pages",
       typedApproaches |-> <<"retry">>, typedState |-> "",
       typedNextSteps |-> <<"write tests">>, typedNotes |-> ""] }

\* runSave: the command exits without saving when it has no task
runSave_cli(cli) ==
    LET s0 == Prior.session
        s1 == IF cli.task # "" THEN [s0 EXCEPT !.Task = cli.task] ELSE s0
        s2 == IF cli.goal # "" THEN [s1 EXCEPT !.Goal = cli.goal] ELSE s1
        s3 == IF cli.state # "" THEN [s2 EXCEPT !.State = cli.state] ELSE s2
        s4 == IF cli.notes # "" THEN [s3 EXCEPT !.Notes = cli.notes] ELSE s3
    IN  /\ IF s4.Task = "" /\ ~cli.quick
           THEN cli.typedTask # "" /\ Save(interactiveSession(s4, cli))
           ELSE s4.Task # "" /\ Save(s4)
        /\ Updated("runSave", <<>>)
        /\ UNCHANGED historyVars

\* toolResume: Load()
toolResume ==
    /\ Load
    /\ UNCHANGED <<historyVars, updateVars>>

\* Clear() ends the updates made in a row
ClearSession ==
    /\ Clear
    /\ streak' = NoStreak
    /\ UNCHANGED <<historyVars, lastUpdate>>

\* git checkout between two updates
SwitchBranch(head) ==
    /\ Checkout(head)
    /\ UNCHANGED <<historyVars, updateVars>>

\* where the updates are made: on two branches whose names differ in a
\* slash only, and on a detached HEAD
UpdateHeads == {HeadRef("feature/x"), HeadRef("feature_x"), Detached}

UpdatesIdle == lastUpdate = NoUpdate /\ streak = NoStreak

(***************************************************************************)
(* Decisions (package decisions): the markdown file                        *)
(* .contextpilot/decisions.md                                              *)
(***************************************************************************)
VARIABLES
    decisionsFile, \* [exists, content]
    calls,         \* the number of Add and Delete calls made
    lastCall,      \* the last Add or Delete call: arguments and result
    before,        \* what List() returned inside that call
    listed         \* what List() returned when called after it: [valid, decisions]

decisionVars == <<decisionsFile, calls, lastCall, before, listed>>

HasPrefix(s, prefix) == Len(s) >= Len(prefix) /\ SubSeq(s, 1, Len(prefix)) = prefix

TrimPrefix(s, prefix) ==
    IF HasPrefix(s, prefix) THEN SubSeq(s, Len(prefix) + 1, Len(s)) ELSE s

\* strings.Index(s, c) for a one-byte c: the 0-based position, or -1
Index(s, c) ==
    LET hits == { i \in 1..Len(s) : CharAt(s, i) = c }
    IN  IF hits = {} THEN -1 ELSE (CHOOSE i \in hits : \A j \in hits : i <= j) - 1

IsSpace(c) == c \in {" ", "\t", "\n", "\r"}

\* strings.TrimSpace
RECURSIVE FirstSolid(_, _)
FirstSolid(s, i) ==
    IF i <= Len(s) /\ IsSpace(CharAt(s, i)) THEN FirstSolid(s, i + 1) ELSE i

RECURSIVE LastSolid(_, _)
LastSolid(s, i) ==
    IF i >= 1 /\ IsSpace(CharAt(s, i)) THEN LastSolid(s, i - 1) ELSE i

TrimSpace(s) == SubSeq(s, FirstSolid(s, 1), LastSolid(s, Len(s)))

\* strings.Join(lines, "\n")
RECURSIVE JoinLines(_, _)
JoinLines(lines, i) ==
    IF i > Len(lines) THEN ""
    ELSE IF i = Len(lines) THEN lines[i]
    ELSE lines[i] \o "\n" \o JoinLines(lines, i + 1)

\* dropCR of bufio: a line loses its trailing carriage return
DropCR(line) ==
    IF Len(line) > 0 /\ CharAt(line, Len(line)) = "\r"
    THEN SubSeq(line, 1, Len(line) - 1)
    ELSE line

\* the positions of the line terminators in lo..hi of the content, ascending
\* (the range is halved, so that TLC's evaluation stays shallow on long files)
RECURSIVE Newlines(_, _, _)
Newlines(content, lo, hi) ==
    IF lo > hi THEN <<>>
    ELSE IF lo = hi THEN (IF CharAt(content, lo) = "\n" THEN <<lo>> ELSE <<>>)
    ELSE LET mid == (lo + hi) \div 2
         IN  Newlines(content, lo, mid) \o Newlines(content, mid + 1, hi)

\* bufio.Scanner with ScanLines: the lines of the content, without their
\* terminators; a last line without terminator counts if it is not empty
Lines(content) ==
    LET n == Len(content)
        ends == Newlines(content, 1, n)
                \o (IF n > 0 /\ CharAt(content, n) # "\n" THEN <<n + 1>> ELSE <<>>)
    IN  [k \in 1..Len(ends) |->
            DropCR(SubSeq(content, IF k = 1 THEN 1 ELSE ends[k - 1] + 1, ends[k] - 1))]

IsDigit(c) == \E v \in 1..10 : DigitChars[v] = c

\* strconv.Atoi on a string of digits
RECURSIVE Atoi(_)
Atoi(digits) ==
    IF digits = "" THEN 0
    ELSE Atoi(SubSeq(digits, 1, Len(digits) - 1)) * 10
         + (CHOOSE v \in 0..9 : DigitChars[v + 1] = CharAt(digits, Len(digits)))

\* idPattern: ^## \[(\d+)\]
RECURSIVE DigitsEnd(_, _)
DigitsEnd(line, i) ==
    IF i <= Len(line) /\ IsDigit(CharAt(line, i)) THEN DigitsEnd(line, i + 1) ELSE i

idPattern(line) ==
    LET e == DigitsEnd(line, 5)
    IN  IF HasPrefix(line, "## [") /\ e > 5 /\ e <= Len(line) /\ CharAt(line, e) = "]"
        THEN [matches |-> TRUE, id |-> SubSeq(line, 5, e - 1)]
        ELSE [matches |-> FALSE, id |-> ""]

\* datePattern: ^\*\*Date:\*\* (.+)$
datePattern(line) ==
    IF HasPrefix(line, "**Date:** ") /\ Len(line) > 10
    THEN [matches |-> TRUE, date |-> SubSeq(line, 11, Len(line))]
    ELSE [matches |-> FALSE, date |-> ""]

SummaryLen == 60

\* summarize(text, maxLen)
summarize(text, maxLen) ==
    LET idx == Index(text, "\n")
        first == IF idx # -1 THEN SubSeq(text, 1, idx) ELSE text
    IN  IF Len(first) <= maxLen THEN first
        ELSE SubSeq(first, 1, maxLen - 3) \o "..."

\* the header Add and rewrite put at the top of the file (its dash is
\* written here in ASCII; List skips these lines whatever they hold)
header ==
    "# Architectural Decisions\n"
    \o "# Managed by ContextPilot - https://contextpilot.dev\n"
    \o "# Add decisions with: contextpilot decision \"Your decision here\"\n"
    \o "\n"

\* the entry Add and rewrite write for a decision
Entry(d) ==
    "## [" \o IntToString(d.ID) \o "] " \o summarize(d.Text, SummaryLen) \o "\n"
    \o "**Date:** " \o d.Date \o "\n\n" \o d.Text \o "\n"
    \o (IF d.Context # "" THEN "\n**Context:** " \o d.Context \o "\n" ELSE "")
    \o "\n---\n\n"

ZeroDecision == [ID |-> 0, Date |-> "", Text |-> "", Context |-> ""]

\* the loop of List over the scanned lines: decisions, current, textLines
Flush(st) ==
    IF st.has
    THEN Append(st.decisions,
                [st.current EXCEPT !.Text = TrimSpace(JoinLines(st.textLines, 1))])
    ELSE st.decisions

ScanLine(st, line) ==
    IF idPattern(line).matches
    THEN [decisions |-> Flush(st), has |-> TRUE,
          current |-> [ZeroDecision EXCEPT !.ID = Atoi(idPattern(line).id)],
          textLines |-> <<>>]
    ELSE IF ~st.has THEN st
    ELSE IF datePattern(line).matches
    THEN [st EXCEPT !.current.Date = datePattern(line).date]
    ELSE IF line = "---" \/ (Len(st.textLines) = 0 /\ line = "") THEN st
    ELSE IF ~HasPrefix(line, "**Context:**")
    THEN [st EXCEPT !.textLines = Append(@, line)]
    ELSE [st EXCEPT !.current.Context = TrimPrefix(line, "**Context:** ")]

\* the loop over the lines lo..hi, in order, from the state st. The range is
\* halved, and the state after the first half is bound as a value before the
\* second half is entered, so that TLC's evaluation stays shallow on long files
RECURSIVE ScanFrom(_, _, _, _)
ScanFrom(lines, lo, hi, st) ==
    IF lo > hi THEN st
    ELSE IF lo = hi THEN ScanLine(st, lines[lo])
    ELSE LET mid == (lo + hi) \div 2
         IN  CHOOSE after \in { ScanFrom(lines, mid + 1, hi, half) :
                                  half \in {ScanFrom(lines, lo, mid, st)} } : TRUE

\* what List() returns on a file
ListOf(file) ==
    IF ~file.exists THEN <<>>
    ELSE LET lines == Lines(file.content)
         IN  Flush(ScanFrom(lines, 1, Len(lines),
                   [decisions |-> <<>>, has |-> FALSE, current |-> ZeroDecision,
                    textLines |-> <<>>]))

\* rewrite(decisions): the new content of the file
RECURSIVE Entries(_, _)
Entries(decisions, i) ==
    IF i > Len(decisions) THEN "" ELSE Entry(decisions[i]) \o Entries(decisions, i + 1)

rewrite(decisions) == header \o Entries(decisions, 1)

\* the texts, contexts and dates of the calls
Texts ==
    { "use redis",
      "Use PostgreSQL for all persistent storage instead of SQLite files\nbecause of concurrent writers",
      "## [7] skip tests" }

Contexts == {"", "perf review"}

Dates == {"2026-11-04"}

NoCall == [op |-> "none", id |-> 0, text |-> "", context |-> "", ok |-> TRUE]
NotListed == [valid |-> FALSE, decisions |-> <<>>]

\* Add numbering by the count of decisions
Add_countPlusOne(text, context, date) ==
    /\ calls < MaxCalls
    /\ LET decisions == ListOf(decisionsFile)
           nextID == Len(decisions) + 1
           decision == [ID |-> nextID, Date |-> date, Text |-> text, Context |-> context]
           old == IF decisionsFile.exists THEN decisionsFile.content ELSE ""
       IN  /\ decisionsFile' =
                 [exists |-> TRUE,
                  content |-> old \o (IF Len(old) = 0 THEN header ELSE "") \o Entry(decision)]
           /\ lastCall' = [op |-> "add", id |-> nextID, text |-> text,
                           context |-> context, ok |-> TRUE]
           /\ before' = decisions
    /\ calls' = calls + 1
    /\ listed' = NotListed

\* Add(text, context) on the day date
Add(text, context, date) ==
    /\ calls < MaxCalls
    /\ LET decisions == ListOf(decisionsFile)
           nextID == IF Len(decisions) > 0 THEN decisions[Len(decisions)].ID + 1 ELSE 1
           decision == [ID |-> nextID, Date |-> date, Text |-> text, Context |-> context]
           old == IF decisionsFile.exists THEN decisionsFile.content ELSE ""
       IN  /\ decisionsFile' =
                 [exists |-> TRUE,
                  content |-> old \o (IF Len(old) = 0 THEN header ELSE "") \o Entry(decision)]
           /\ lastCall' = [op |-> "add", id |-> nextID, text |-> text,
                           context |-> context, ok |-> TRUE]
           /\ before' = decisions
    /\ calls' = calls + 1
    /\ listed' = NotListed

\* Delete(id)
Delete(id) ==
    /\ calls < MaxCalls
    /\ LET decisions == ListOf(decisionsFile)
           remaining == SelectSeq(decisions, LAMBDA d : d.ID # id)
           found == \E i \in DOMAIN decisions : decisions[i].ID = id
       IN  /\ decisionsFile' =
                 IF found THEN [exists |-> TRUE, content |-> rewrite(remaining)]
                 ELSE decisionsFile
           /\ lastCall' = [op |-> "delete", id |-> id, text |-> "", context |-> "",
                           ok |-> found]
           /\ before' = decisions
    /\ calls' = calls + 1
    /\ listed' = NotListed

\* the ids Delete is called with: the listed ones and one that is not
DeleteIds ==
    LET decisions == ListOf(decisionsFile)
    IN  { decisions[i].ID : i \in DOMAIN decisions } \cup {99}

\* List()
List ==
    /\ ~listed.valid
    /\ listed' = [valid |-> TRUE, decisions |-> ListOf(decisionsFile)]
    /\ UNCHANGED <<decisionsFile, calls, lastCall, before>>

InitDecisions ==
    /\ decisionsFile = [exists |-> FALSE, content |-> ""]
    /\ calls = 0
    /\ lastCall = NoCall
    /\ before = <<>>
    /\ listed = NotListed

(***************************************************************************)
(* The quality score (cmd/score.go)                                        *)
(***************************************************************************)
VARIABLES
    config,        \* .contextpilot/config.yaml: [parses, hasLastSync, ageHours]
    scorePc,       \* "idle" | "n/a" | "done": how far runScore got
    score          \* the scoreResult of calculateScore

scoreVars == <<config, scorePc, score>>

\* the context files calculateScore looks for: path, points, name
scoreFiles ==
    << [path |-> <<".cursorrules">>, points |-> 10, name |-> ".cursorrules"],
       [path |-> <<"CLAUDE.md">>, points |-> 10, name |-> "CLAUDE.md"],
       [path |-> <<".github", "copilot-instructions.md">>, points |-> 10,
        name |-> "copilot-instructions.md"],
       [path |-> <<".contextpilot", "config.yaml">>, points |-> 10, name |-> "config.yaml"] >>

configPath == <<".contextpilot", "config.yaml">>

\* the loop over files: completeness and the issues it appends
RECURSIVE CompletenessFrom(_, _, _)
CompletenessFrom(f, i, res) ==
    IF i > Len(scoreFiles) THEN res
    ELSE CompletenessFrom(f, i + 1,
             IF StatOK(f, scoreFiles[i].path)
             THEN [res EXCEPT !.completeness = @ + scoreFiles[i].points]
             ELSE [res EXCEPT !.issues = Append(@, "Missing: " \o scoreFiles[i].name)])

\* a.Analyze() as calculateScore uses it: is analysis.Framework set
FrameworkDetected(f) == detectFramework(f, NewAnalysis(f)).framework.set

\* int(time.Since(cfg.LastSync).Hours() / 24): the conversion truncates
\* toward zero
DaysSince(ageHours) ==
    IF ageHours >= 0 THEN ageHours \div 24 ELSE 0 - ((0 - ageHours) \div 24)

FreshnessOf_linear(days) == 30 - days

FreshnessOf(days) ==
    IF days = 0 THEN 30
    ELSE IF days <= 7 THEN 25
    ELSE IF days <= 30 THEN 15
    ELSE 5

Freshness(f, cfg, res) ==
    IF ReadFileOK(f, configPath) /\ cfg.parses /\ cfg.hasLastSync
    THEN LET days == DaysSince(cfg.ageHours)
             scored == [res EXCEPT !.freshness = FreshnessOf(days)]
         IN  IF days <= 7 THEN scored
             ELSE IF days <= 30
             THEN [scored EXCEPT !.suggestions = Append(@, "Run 'contextpilot sync'")]
             ELSE [scored EXCEPT !.issues =
                      Append(@, "Context files stale (" \o IntToString(days) \o
                                " days since sync)")]
    ELSE res

\* decMgr.List(): nothing when the file cannot be reached
DecisionCount(f, file) ==
    IF file.exists /\ StatOK(f, <<".contextpilot">>) /\ Searchable(KindOf(f, <<".contextpilot">>))
    THEN Len(ListOf(file))
    ELSE 0

DecisionScore_bonus(decCount) ==
    IF decCount = 0 THEN 5
    ELSE IF decCount < 3 THEN 15
    ELSE IF decCount < 5 THEN 22
    ELSE 30 + decCount

DecisionScore(decCount) ==
    IF decCount = 0 THEN 5
    ELSE IF decCount < 3 THEN 15
    ELSE IF decCount < 5 THEN 22
    ELSE 30

ZeroScore ==
    [total |-> 0, completeness |-> 0, freshness |-> 0, decisions |-> 0,
     issues |-> <<>>, suggestions |-> <<>>]

calculateScore(f, cfg, file) ==
    LET r1 == CompletenessFrom(f, 1, ZeroScore)
        r2 == IF FrameworkDetected(f) THEN r1
              ELSE [r1 EXCEPT !.suggestions = Append(@, "Add framework detection")]
        r3 == Freshness(f, cfg, r2)
        decCount == DecisionCount(f, file)
        r4 == [r3 EXCEPT
                 !.decisions = DecisionScore(decCount),
                 !.suggestions =
                     IF decCount = 0 THEN Append(@, "Add architectural decisions")
                     ELSE IF decCount < 3 THEN Append(@, "Add more decisions")
                     ELSE @]
    IN  [r4 EXCEPT !.total = r4.completeness + r4.freshness + r4.decisions]

\* os.Stat fails with "not exist": a component of the path is missing in a
\* directory that can be searched
StatNotExist(f, p) ==
    \E i \in 1..Len(p) :
        /\ ~Exists(f, SubSeq(p, 1, i))
        /\ \A j \in 0..(i - 1) :
               Exists(f, SubSeq(p, 1, j)) /\ Searchable(KindOf(f, SubSeq(p, 1, j)))

\* runScore: "N/A" when config.yaml does not exist, else the score
runScore ==
    /\ scorePc = "idle"
    /\ IF StatNotExist(fs, configPath)
       THEN /\ scorePc' = "n/a"
            /\ score' = score
       ELSE /\ scorePc' = "done"
            /\ score' = calculateScore(fs, config, decisionsFile)
    /\ UNCHANGED config

\* score family: the context files present or not, .contextpilot readable
\* or not, with and without a package.json that names a framework
ScoreUniverse ==
    { << <<".cursorrules">>, "file" >>, << <<"CLAUDE.md">>, "file" >>,
      << <<".github">>, "dir" >>, << <<".github", "copilot-instructions.md">>, "file" >>,
      << <<".contextpilot">>, "dir" >>, << <<".contextpilot">>, "dir_none" >>,
      << <<".contextpilot", "config.yaml">>, "file" >>,
      << <<"package.json">>, "file" >> }

ScoreInputs ==
    { ErrorFs("proj", "dir", T) : T \in TreesOver(ScoreUniverse, Cardinality(ScoreUniverse)) }

\* the age of lastSync in hours, negative for a lastSync in the future
Ages == { -10000, -200, -24, -23, -1, 0, 23, 24, 191, 192, 743, 744, 10000 }

NoConfig == [parses |-> FALSE, hasLastSync |-> FALSE, ageHours |-> 0]

Configs ==
    { NoConfig, [parses |-> TRUE, hasLastSync |-> FALSE, ageHours |-> 0] }
    \cup { [parses |-> TRUE, hasLastSync |-> TRUE, ageHours |-> a] : a \in Ages }

\* a decisions file as rewrite leaves it with k decisions
PlainDecisions(k) ==
    [i \in 1..k |-> [ID |-> i, Date |-> "2026-11-04", Text |-> "use redis", Context |-> ""]]

DecisionFiles ==
    { [exists |-> FALSE, content |-> ""] }
    \cup { [exists |-> TRUE, content |-> rewrite(PlainDecisions(k))] : k \in 0..MaxListed }

InitScores ==
    /\ config = NoConfig
    /\ scorePc = "idle"
    /\ score = ZeroScore

(***************************************************************************)
(* The JSON-RPC server (package mcp): Run reads stdin line by line and     *)
(* prints one line per response                                            *)
(***************************************************************************)
VARIABLES
    serverPc,      \* "scanning", or how Run returned: "end of input" | "token too long"
    stdout,        \* the responses printed, in order
    answered       \* the input lines taken so far, each with the responses printed for it

serverVars == <<serverPc, stdout, answered>>

\* scanner.Buffer(buf, 1024*1024): the longest token Scan returns is one
\* byte shorter, the buffer has to hold the line ending too
MaxTokenSize == 1048576

\* a member of a JSON object: absent, null, a string, or a number, which is
\* k, or 2^53 + k when big
NoMember == [t |-> "absent", s |-> "", big |-> FALSE, k |-> 0]
JNull == [t |-> "null", s |-> "", big |-> FALSE, k |-> 0]
JString(s) == [t |-> "string", s |-> s, big |-> FALSE, k |-> 0]
JNumber(k) == [t |-> "number", s |-> "", big |-> FALSE, k |-> k]
JBigNumber(k) == [t |-> "number", s |-> "", big |-> TRUE, k |-> k]

\* the params member: absent, not an object, or an object with name, uri
\* and arguments
NoParams == [t |-> "absent", name |-> "", uri |-> "", hasArgs |-> FALSE, args |-> <<>>]
ScalarParams == [t |-> "scalar", name |-> "", uri |-> "", hasArgs |-> FALSE, args |-> <<>>]
CallParams(name, args) ==
    [t |-> "object", name |-> name, uri |-> "", hasArgs |-> TRUE, args |-> args]
CallNoArgs(name) ==
    [t |-> "object", name |-> name, uri |-> "", hasArgs |-> FALSE, args |-> <<>>]
ReadParams(uri) ==
    [t |-> "object", name |-> "", uri |-> uri, hasArgs |-> FALSE, args |-> <<>>]

\* the text of a line: blank, not JSON, a JSON value that is no object,
\* null, or an object
Blank == [form |-> "blank", method |-> NoMember, id |-> NoMember, params |-> NoParams]
Garbage == [form |-> "invalid", method |-> NoMember, id |-> NoMember, params |-> NoParams]
Scalar == [form |-> "scalar", method |-> NoMember, id |-> NoMember, params |-> NoParams]
NullText == [form |-> "null", method |-> NoMember, id |-> NoMember, params |-> NoParams]
Object(method, id, params) ==
    [form |-> "object", method |-> method, id |-> id, params |-> params]

\* a JSON number decoded into interface{} is a float64: from 2^53 on only
\* every second integer has one, and the decoder rounds to the nearest, to
\* the even mantissa on a tie
Float64(n) ==
    IF n.big
    THEN LET q == n.k \div 2
         IN  [n EXCEPT !.k = IF n.k % 2 = 0 THEN n.k
                             ELSE IF q % 2 = 0 THEN 2 * q ELSE 2 * (q + 1)]
    ELSE n

ZeroRequest == [ID |-> NoMember, Method |-> "", Params |-> NoParams]

\* json.Unmarshal([]byte(line), &req)
UnmarshalRequest(text) ==
    IF text.form \in {"invalid", "scalar"} THEN [err |-> TRUE, req |-> ZeroRequest]
    ELSE IF text.form = "null" THEN [err |-> FALSE, req |-> ZeroRequest]
    ELSE IF text.method.t = "number" THEN [err |-> TRUE, req |-> ZeroRequest]
    ELSE [err |-> FALSE,
          req |-> [ID |-> IF text.id.t \in {"absent", "null"} THEN NoMember
                          ELSE IF text.id.t = "number" THEN Float64(text.id)
                          ELSE text.id,
                   Method |-> text.method.s,
                   Params |-> text.params]]

NoError == [set |-> FALSE, code |-> 0, message |-> ""]
NoResult == [set |-> FALSE, text |-> "", isError |-> FALSE]

\* sendResult, sendError: the Response as json.Marshal writes it, a nil ID
\* left out
sendResult(id, text, isError) ==
    [id |-> id, error |-> NoError, result |-> [set |-> TRUE, text |-> text, isError |-> isError]]

sendError(id, code, message) ==
    [id |-> id, error |-> [set |-> TRUE, code |-> code, message |-> message],
     result |-> NoResult]

RECURSIVE Bullets(_)
Bullets(items) ==
    IF items = <<>> THEN "" ELSE "- " \o Head(items) \o "\n" \o Bullets(Tail(items))

\* GeneratePrompt(s); the time is written as its number
GeneratePrompt(s) ==
    "## Session Context\n\n" \o "**Task:** " \o s.Task \o "\n"
    \o (IF s.Goal # "" THEN "**Goal:** " \o s.Goal \o "\n" ELSE "")
    \o (IF s.Approaches # <<>> THEN "\n**Approaches Tried:**\n" \o Bullets(s.Approaches) ELSE "")
    \o (IF s.Decisions # <<>> THEN "\n**Decisions Made:**\n" \o Bullets(s.Decisions) ELSE "")
    \o (IF s.State # "" THEN "\n**Current State:** " \o s.State \o "\n" ELSE "")
    \o (IF s.NextSteps # <<>> THEN "\n**Next Steps:**\n" \o Bullets(s.NextSteps) ELSE "")
    \o (IF s.Notes # "" THEN "\n**Notes:** " \o s.Notes \o "\n" ELSE "")
    \o "\n---\n*Session saved: " \o IntToString(s.UpdatedAt) \o "*\n"

\* scanner.Scan() returned a line
Scanned(line) ==
    /\ serverPc = "scanning"
    /\ Len(answered) < MaxLines
    /\ line.size < MaxTokenSize

Respond(line, out) ==
    /\ stdout' = stdout \o out
    /\ answered' = Append(answered, [line |-> line, out |-> out])
    /\ serverPc' = serverPc

Quiet == UNCHANGED <<analyzerVars, sessionVars, decisionVars, scoreVars, historyVars, updateVars>>

Request(line) == UnmarshalRequest(line.text).req

\* handleRequest: the line is a request with this method
Dispatch(line, method) ==
    /\ Scanned(line)
    /\ line.text.form # "blank"
    /\ ~UnmarshalRequest(line.text).err
    /\ Request(line).Method = method

Methods ==
    {"initialize", "initialized", "tools/list", "tools/call", "resources/list",
     "resources/read"}

\* Run: line == ""
SkipEmpty(line) ==
    /\ Scanned(line)
    /\ line.text.form = "blank"
    /\ Respond(line, <<>>)
    /\ Quiet

\* Run: json.Unmarshal failed
ParseError(line) ==
    /\ Scanned(line)
    /\ line.text.form # "blank"
    /\ UnmarshalRequest(line.text).err
    /\ Respond(line, <<sendError(NoMember, -32700, "Parse error")>>)
    /\ Quiet

handleInitialize(line) ==
    /\ Dispatch(line, "initialize")
    /\ Respond(line, <<sendResult(Request(line).ID, "protocolVersion 2024-11-05", FALSE)>>)
    /\ Quiet

\* case "initialized": nothing is sent
initialized(line) ==
    /\ Dispatch(line, "initialized")
    /\ Respond(line, <<>>)
    /\ Quiet

handleToolsList(line) ==
    /\ Dispatch(line, "tools/list")
    /\ Respond(line, <<sendResult(Request(line).ID, "tools", FALSE)>>)
    /\ Quiet

handleResourcesList(line) ==
    /\ Dispatch(line, "resources/list")
    /\ Respond(line, <<sendResult(Request(line).ID, "resources", FALSE)>>)
    /\ Quiet

\* handleRequest: default
MethodNotFound(line) ==
    /\ Scanned(line)
    /\ line.text.form # "blank"
    /\ ~UnmarshalRequest(line.text).err
    /\ Request(line).Method \notin Methods
    /\ Respond(line, <<sendError(Request(line).ID, -32601,
                                 "Method not found: " \o Request(line).Method)>>)
    /\ Quiet

Tools ==
    {"contextpilot_save", "contextpilot_resume", "contextpilot_sync",
     "contextpilot_decision", "contextpilot_score"}

\* handleToolsCall: params that do not decode, or a tool that is not known
handleToolsCall_invalid(line) ==
    /\ Dispatch(line, "tools/call")
    /\ LET req == Request(line)
       IN  \/ /\ req.Params.t # "object"
              /\ Respond(line, <<sendError(req.ID, -32602, "Invalid params")>>)
           \/ /\ req.Params.t = "object"
              /\ req.Params.name \notin Tools
              /\ Respond(line, <<sendError(req.ID, -32602,
                                           "Unknown tool: " \o req.Params.name)>>)
    /\ Quiet

ToolCall(line, name) ==
    /\ Dispatch(line, "tools/call")
    /\ Request(line).Params.t = "object"
    /\ Request(line).Params.name = name

\* handleToolsCall, contextpilot_save
handleToolsCall_save(line) ==
    /\ ToolCall(line, "contextpilot_save")
    /\ toolSave(Request(line).Params.args)
    /\ Respond(line, <<sendResult(Request(line).ID,
                                  "Session saved: " \o Arg(Request(line).Params.args, "task"),
                                  FALSE)>>)
    /\ UNCHANGED <<analyzerVars, decisionVars, scoreVars>>

\* handleToolsCall, contextpilot_resume
handleToolsCall_resume(line) ==
    /\ ToolCall(line, "contextpilot_resume")
    /\ toolResume
    /\ Respond(line, <<sendResult(Request(line).ID,
                                  IF loaded'.found THEN GeneratePrompt(loaded'.session)
                                  ELSE "No saved session for this branch",
                                  FALSE)>>)
    /\ UNCHANGED <<analyzerVars, decisionVars, scoreVars>>

\* handleToolsCall, contextpilot_sync: the analysis and the generated files
\* do not show in the response, which tells only whether both went well
handleToolsCall_sync(line) ==
    /\ ToolCall(line, "contextpilot_sync")
    /\ \E ok \in BOOLEAN :
           Respond(line, <<sendResult(Request(line).ID,
                                      IF ok THEN "Context files updated" ELSE "Error: sync",
                                      ~ok)>>)
    /\ Quiet

\* handleToolsCall, contextpilot_decision
handleToolsCall_decision(line) ==
    /\ ToolCall(line, "contextpilot_decision")
    /\ \E date \in Dates :
           Add(Arg(Request(line).Params.args, "text"),
               Arg(Request(line).Params.args, "context"), date)
    /\ Respond(line, <<sendResult(Request(line).ID,
                                  "Decision #" \o IntToString(lastCall'.id) \o " logged: "
                                      \o Arg(Request(line).Params.args, "text"),
                                  FALSE)>>)
    /\ UNCHANGED <<analyzerVars, sessionVars, scoreVars, historyVars, updateVars>>

\* toolScore: 25 for each context file found
toolScore(f) ==
    25 * Cardinality({ i \in DOMAIN scoreFiles : StatOK(f, scoreFiles[i].path) })

\* handleToolsCall, contextpilot_score
handleToolsCall_score(line) ==
    /\ ToolCall(line, "contextpilot_score")
    /\ Respond(line, <<sendResult(Request(line).ID,
                                  "Context Quality Score: " \o IntToString(toolScore(fs))
                                      \o "/100",
                                  FALSE)>>)
    /\ Quiet

\* handleResourcesRead
handleResourcesRead(line) ==
    /\ Dispatch(line, "resources/read")
    /\ LET req == Request(line)
           uri == req.Params.uri
       IN  IF req.Params.t # "object"
           THEN Respond(line, <<sendError(req.ID, -32602, "Invalid params")>>)
           ELSE IF uri = "contextpilot://context"
           THEN Respond(line, <<sendResult(req.ID,
                    IF ReadFileOK(fs, <<"CLAUDE.md">>) THEN "text of CLAUDE.md"
                    ELSE IF ReadFileOK(fs, <<".cursorrules">>) THEN "text of .cursorrules"
                    ELSE "No context files found. Run 'contextpilot init' to generate.",
                    FALSE)>>)
           ELSE IF uri = "contextpilot://session"
           THEN Respond(line, <<sendResult(req.ID,
                    IF Prior.found THEN GeneratePrompt(Prior.session)
                    ELSE "No saved session for this branch.",
                    FALSE)>>)
           ELSE Respond(line, <<sendError(req.ID, -32602, "Unknown resource: " \o uri)>>)
    /\ Quiet

\* scanner.Scan() fails on a line that does not fit the buffer: the loop
\* ends and Run returns bufio.ErrTooLong
TooLong(line) ==
    /\ serverPc = "scanning"
    /\ Len(answered) < MaxLines
    /\ line.size >= MaxTokenSize
    /\ serverPc' = "token too long"
    /\ answered' = Append(answered, [line |-> line, out |-> <<>>])
    /\ UNCHANGED stdout
    /\ Quiet

\* scanner.Scan() at the end of stdin: Run returns nil
EndOfInput ==
    /\ serverPc = "scanning"
    /\ serverPc' = "end of input"
    /\ UNCHANGED <<stdout, answered>>
    /\ Quiet

\* the lines a client sends
ShortLine(text) == [size |-> 40, text |-> text]

DecisionArgs ==
    [k \in {"text", "context"} |-> IF k = "text" THEN "use redis" ELSE "perf review"]

RequestLines ==
    { ShortLine(Object(JString("initialize"), JNumber(1), NoParams)),
      ShortLine(Object(JString("initialized"), NoMember, NoParams)),
      ShortLine(Object(JString("initialized"), JNumber(2), NoParams)),
      ShortLine(Object(JString("tools/list"), JString("a"), NoParams)),
      ShortLine(Object(JString("tools/list"), NoMember, NoParams)),
      ShortLine(Object(JString("tools/list"), JBigNumber(1), NoParams)),
      ShortLine(Object(JString("tools/call"), JNumber(3), NoParams)),
      ShortLine(Object(JString("tools/call"), JNumber(3), CallNoArgs("contextpilot_deploy"))),
      ShortLine(Object(JString("tools/call"), JNumber(4), CallNoArgs("contextpilot_save"))),
      ShortLine(Object(JString("tools/call"), JNumber(5), CallNoArgs("contextpilot_resume"))),
      ShortLine(Object(JString("tools/call"), JNumber(6), CallNoArgs("contextpilot_sync"))),
      ShortLine(Object(JString("tools/call"), JNumber(7),
                       CallParams("contextpilot_decision", DecisionArgs))),
      ShortLine(Object(JString("tools/call"), JNumber(8), CallNoArgs("contextpilot_score"))),
      ShortLine(Object(JString("resources/list"), JNumber(9), NoParams)),
      ShortLine(Object(JString("resources/read"), JNumber(10), ScalarParams)),
      ShortLine(Object(JString("resources/read"), JNumber(10),
                       ReadParams("contextpilot://context"))),
      ShortLine(Object(JString("resources/read"), JNumber(11),
                       ReadParams("contextpilot://session"))),
      ShortLine(Object(JString("resources/read"), JNumber(12), ReadParams("file:///etc"))),
      ShortLine(Object(JString("ping"), JNumber(13), NoParams)),
      ShortLine(Object(NoMember, JNull, NoParams)),
      ShortLine(Object(JNumber(5), JNumber(14), NoParams)) }

ServerLines ==
    RequestLines
    \cup { ShortLine(Object(JString("tools/call"), JNumber(4),
                            CallParams("contextpilot_save", args))) : args \in ToolArgs }
    \cup { [size |-> 0, text |-> Blank], [size |-> 1, text |-> Blank],
           ShortLine(Garbage), ShortLine(Scalar), ShortLine(NullText),
           [size |-> MaxTokenSize - 1,
            text |-> Object(JString("tools/list"), JNumber(15), NoParams)],
           [size |-> MaxTokenSize,
            text |-> Object(JString("tools/list"), JNumber(16), NoParams)] }

\* the project the server runs in: without context files, with both, with
\* .cursorrules only
ServerInputs ==
    { PlainFs({}, NoPkg),
      PlainFs({ << <<"CLAUDE.md">>, "file" >>, << <<".cursorrules">>, "file" >> }, NoPkg),
      PlainFs({ << <<".cursorrules">>, "file" >> }, NoPkg) }

InitServers ==
    /\ serverPc = "scanning"
    /\ stdout = <<>>
    /\ answered = <<>>

ServerIdle == InitServers

(***************************************************************************)
(* Specification                                                           *)
(***************************************************************************)
InitRuns(inputs) ==
    /\ fs \in inputs
    /\ pc = [r \in Runs |-> "idle"]
    /\ stack = [r \in Runs |-> <<>>]
    /\ walkErr = [r \in Runs |-> "nil"]
    /\ extCount = [r \in Runs |-> <<>>]
    /\ totalFiles = [r \in Runs |-> 0]
    /\ analysis = [r \in Runs |-> NewAnalysis(fs)]
    /\ ret = [r \in Runs |-> "none"]

Call(r) ==
    \/ Analyze(r)
    \/ Visit(r)
    \/ Convert(r)
    \/ Detect(r)

\* calls on one Analyzer value made for the root of the tree
InitOn(inputs) ==
    /\ InitRuns(inputs)
    /\ analyzers = [a \in AnalyzerIds |-> New(RootPath(fs))]
    /\ recv = [r \in Runs |-> 1]

vars ==
    <<analyzerVars, sessionVars, decisionVars, scoreVars, historyVars, updateVars,
      serverVars>>

\* the parts of the program a specification leaves at rest
SessionsIdle == gitHead = HeadRef("main") /\ InitSessions

DecisionsIdle == InitDecisions

ScoreIdle == InitScores /\ HistoryIdle /\ UpdatesIdle /\ ServerIdle

AnalyzerIdle == InitOn(ScenarioInputs)

\* one call of Analyze() on any input
Init == InitOn(Inputs) /\ SessionsIdle /\ DecisionsIdle /\ ScoreIdle

Next ==
    /\ Call(1)
    /\ UNCHANGED <<sessionVars, decisionVars, scoreVars, historyVars, updateVars, serverVars>>

Spec == Init /\ [][Next]_vars

\* two calls of Analyze(), one after the other, on an unchanged tree
InitRerun == InitOn(RerunInputs) /\ SessionsIdle /\ DecisionsIdle /\ ScoreIdle

NextRerun ==
    /\ \E r \in Runs : (\A q \in Runs : q < r => pc[q] = "done") /\ Call(r)
    /\ UNCHANGED <<sessionVars, decisionVars, scoreVars, historyVars, updateVars, serverVars>>

SpecRerun == InitRerun /\ [][NextRerun]_vars

\* two calls of Analyze() running at the same time, on one Analyzer value or
\* on two, on the same root or on the root and a directory below it
RootPaths(f) ==
    {RootPath(f)}
    \cup { JoinPath(RootPath(f), p) : p \in { q \in DOMAIN f.tree : IsDirKind(f.tree[q]) } }

InitConcurrent ==
    /\ InitRuns(ConcurrentInputs)
    /\ \E rp \in RootPaths(fs) :
           analyzers = [a \in AnalyzerIds |-> New(IF a = 1 THEN RootPath(fs) ELSE rp)]
    /\ recv \in [Runs -> AnalyzerIds]
    /\ SessionsIdle
    /\ DecisionsIdle
    /\ ScoreIdle

NextConcurrent ==
    /\ \E r \in Runs : Call(r)
    /\ UNCHANGED <<sessionVars, decisionVars, scoreVars, historyVars, updateVars, serverVars>>

SpecConcurrent == InitConcurrent /\ [][NextConcurrent]_vars

\* any sequence of Save, Load, Clear and branch switches
InitSession == AnalyzerIdle /\ InitSessions /\ DecisionsIdle /\ ScoreIdle

NextSession ==
    /\ \/ \E s \in SaveInputs : Save(s)
       \/ Load
       \/ Clear
       \/ \E head \in Heads : Checkout(head)
    /\ UNCHANGED <<analyzerVars, decisionVars, scoreVars, historyVars, updateVars, serverVars>>

SpecSession == InitSession /\ [][NextSession]_vars

\* any sequence of Add, Delete and List, starting without a decisions file
InitDecision == AnalyzerIdle /\ SessionsIdle /\ InitDecisions /\ ScoreIdle

NextDecision ==
    /\ \/ \E text \in Texts, context \in Contexts, date \in Dates : Add(text, context, date)
       \/ \E id \in DeleteIds : Delete(id)
       \/ List
    /\ UNCHANGED <<analyzerVars, sessionVars, scoreVars, historyVars, updateVars, serverVars>>

SpecDecision == InitDecision /\ [][NextDecision]_vars

\* Saves and GetHistory calls on changing branches, after earlier saves that
\* left the history short of its cap, at it or past it
InitLog ==
    /\ AnalyzerIdle
    /\ DecisionsIdle
    /\ InitScores
    /\ UpdatesIdle
    /\ ServerIdle
    /\ \E n \in EarlierSaves : InitHistory(n)

NextLog ==
    /\ \/ \E s \in SaveInputs : SaveLogged(s)
       \/ \E head \in Heads : Switch(head)
       \/ \E limit \in Limits : GetHistory(limit)
    /\ UNCHANGED <<analyzerVars, decisionVars, scoreVars, updateVars, serverVars>>

SpecLog == InitLog /\ [][NextLog]_vars

\* updates by the command and by the tool, with Load, Clear and checkouts
\* between them
InitUpdate ==
    /\ AnalyzerIdle
    /\ DecisionsIdle
    /\ InitScores
    /\ HistoryIdle
    /\ InitSessions
    /\ gitHead \in UpdateHeads
    /\ UpdatesIdle
    /\ ServerIdle

NextUpdate ==
    /\ \/ \E args \in ToolArgs : toolSave(args)
       \/ \E cli \in CliInputs : runSave_cli(cli)
       \/ toolResume
       \/ ClearSession
       \/ \E head \in UpdateHeads : SwitchBranch(head)
    /\ UNCHANGED <<analyzerVars, decisionVars, scoreVars, serverVars>>

SpecUpdate == InitUpdate /\ [][NextUpdate]_vars

\* the same calls, on no decisions file or on one that earlier calls left
\* with two decisions
InitRenumber ==
    /\ AnalyzerIdle
    /\ SessionsIdle
    /\ ScoreIdle
    /\ decisionsFile \in { [exists |-> FALSE, content |-> ""],
                           [exists |-> TRUE, content |-> rewrite(PlainDecisions(2))] }
    /\ calls = 0
    /\ lastCall = NoCall
    /\ before = <<>>
    /\ listed = NotListed

SpecRenumber == InitRenumber /\ [][NextDecision]_vars

\* one run of the score command on any combination of context files,
\* last-sync age and logged decisions
InitScore ==
    /\ InitOn(ScoreInputs)
    /\ SessionsIdle
    /\ decisionsFile \in (IF Exists(fs, <<".contextpilot">>)
                          THEN DecisionFiles
                          ELSE { [exists |-> FALSE, content |-> ""] })
    /\ calls = 0
    /\ lastCall = NoCall
    /\ before = <<>>
    /\ listed = NotListed
    /\ config \in (IF Exists(fs, configPath) THEN Configs ELSE {NoConfig})
    /\ scorePc = "idle"
    /\ score = ZeroScore
    /\ HistoryIdle
    /\ UpdatesIdle
    /\ ServerIdle

NextScore ==
    runScore /\ UNCHANGED <<analyzerVars, sessionVars, decisionVars, historyVars, updateVars, serverVars>>

SpecScore == InitScore /\ [][NextScore]_vars

\* the server on any input of up to MaxLines lines
InitServer ==
    /\ InitOn(ServerInputs)
    /\ SessionsIdle
    /\ DecisionsIdle
    /\ InitScores
    /\ HistoryIdle
    /\ UpdatesIdle
    /\ InitServers

NextServer ==
    \/ \E line \in ServerLines :
           \/ SkipEmpty(line)
           \/ ParseError(line)
           \/ handleInitialize(line)
           \/ initialized(line)
           \/ handleToolsList(line)
           \/ handleToolsCall_invalid(line)
           \/ handleToolsCall_save(line)
           \/ handleToolsCall_resume(line)
           \/ handleToolsCall_sync(line)
           \/ handleToolsCall_decision(line)
           \/ handleToolsCall_score(line)
           \/ handleResourcesList(line)
           \/ handleResourcesRead(line)
           \/ MethodNotFound(line)
           \/ TooLong(line)
    \/ EndOfInput

SpecServer == InitServer /\ [][NextServer]_vars

(***************************************************************************)
(* Notions the properties are stated with                                  *)
(***************************************************************************)
Finished(r) == pc[r] = "done" /\ ret[r] = "ok"

IgnoreListed ==
    { "node_modules", "vendor", ".git", "dist", "build", ".next", "__pycache__",
      ".venv", "venv", ".idea", ".vscode", "coverage", ".nyc_output" }

\* the directories above p, the root included
Ancestors(p) == { SubSeq(p, 1, i) : i \in 0..(Len(p) - 1) }

\* p lies below a directory whose base name is on the ignore list
UnderIgnored(f, p) == \E q \in Ancestors(p) : BaseName(f, q) \in IgnoreListed

\* every directory above p can be listed and searched (no soft skip hides p)
Readable(f, p) == \A q \in Ancestors(p) : KindOf(f, q) = "dir"

LowerExtOf(name) == ToLower(Ext(name))

\* the files Analyze() is to count: recognized extension, outside pruned
\* directories, not hidden behind a directory that cannot be read
RecognizedFiles(f) ==
    { p \in DOMAIN f.tree :
        /\ f.tree[p] = "file"
        /\ LowerExtOf(Last(p)) \in codeExts
        /\ ~UnderIgnored(f, p)
        /\ Readable(f, p) }

RecognizedWithExt(f, e) == { p \in RecognizedFiles(f) : LowerExtOf(Last(p)) = e }

RECURSIVE SumFileCount(_)
SumFileCount(langs) ==
    IF langs = <<>> THEN 0 ELSE Head(langs).fileCount + SumFileCount(Tail(langs))

(***************************************************************************)
(* C1: when Analyze() returns, the fileCounts of languages add up to the   *)
(* number of files with a recognized lowercased extension that lie outside *)
(* pruned directories (and are not hidden by a read error), and no two     *)
(* entries of languages have the same extension.                           *)
(***************************************************************************)
C1_CountsAddUp ==
    \A r \in Runs :
        Finished(r) =>
            /\ SumFileCount(analysis[r].languages) = Cardinality(RecognizedFiles(fs))
            /\ \A i, j \in DOMAIN analysis[r].languages :
                   i # j => analysis[r].languages[i].extension
                            # analysis[r].languages[j].extension

\* a finished run that counted two files under one extension, one of them
\* with an upper-case extension, on a tree that also holds files not counted
C1_Witness ==
    /\ Finished(1)
    /\ \E i \in DOMAIN analysis[1].languages : analysis[1].languages[i].fileCount >= 2
    /\ \E p \in RecognizedFiles(fs) : Ext(Last(p)) # LowerExtOf(Last(p))
    /\ \E p \in DOMAIN fs.tree : fs.tree[p] = "file" /\ p \notin RecognizedFiles(fs)

(***************************************************************************)
(* C2: a directory whose base name is on the ignore list is pruned at any  *)
(* depth: the walk never visits a path below it, and no file at or below   *)
(* it is part of a fileCount or of the percentage denominator.             *)
(***************************************************************************)
C2_IgnoredPruned ==
    \A r \in Runs :
        /\ \A i \in DOMAIN stack[r] : ~UnderIgnored(fs, stack[r][i])
        /\ \A e \in DOMAIN extCount[r] :
               extCount[r][e] <= Cardinality(RecognizedWithExt(fs, e))
        /\ Finished(r) =>
               \A i \in DOMAIN analysis[r].languages :
                   LET l == analysis[r].languages[i]
                   IN  /\ l.fileCount = Cardinality(RecognizedWithExt(fs, l.extension))
                       /\ l.percentage.den = Cardinality(RecognizedFiles(fs))

\* a finished run on a tree with a code file below an ignored directory that
\* is itself below an ordinary directory, and with a counted file
C2_Witness ==
    /\ Finished(1)
    /\ analysis[1].languages # <<>>
    /\ \E p \in DOMAIN fs.tree :
           /\ fs.tree[p] = "file"
           /\ LowerExtOf(Last(p)) \in codeExts
           /\ Len(p) >= 3
           /\ p[Len(p) - 1] \in IgnoreListed
           /\ p[1] \notin IgnoreListed

(***************************************************************************)
(* C3: every entry of languages has percentage = fileCount / T * 100 with  *)
(* T the number of recognized files; other files change neither count nor  *)
(* denominator; with T = 0 there is no entry.  Three .go files and one .md *)
(* file give the single entry {Go, .go, 3, 100}.                           *)
(***************************************************************************)
ThreeGoOneMd(f) ==
    /\ Cardinality(DOMAIN f.tree) = 4
    /\ \A p \in DOMAIN f.tree : Len(p) = 1 /\ f.tree[p] = "file"
    /\ Cardinality({ p \in DOMAIN f.tree : LowerExtOf(Last(p)) = ".go" }) = 3
    /\ Cardinality({ p \in DOMAIN f.tree : LowerExtOf(Last(p)) = ".md" }) = 1

C3_Percentage ==
    \A r \in Runs :
        Finished(r) =>
            LET T == Cardinality(RecognizedFiles(fs))
                langs == analysis[r].languages
            IN  /\ T = 0 => langs = <<>>
                /\ \A i \in DOMAIN langs :
                       /\ langs[i].percentage.den # 0
                       /\ langs[i].percentage.num * T
                              = langs[i].fileCount * 100 * langs[i].percentage.den
                /\ (ThreeGoOneMd(fs) /\ fs.rootKind = "dir") =>
                       /\ Len(langs) = 1
                       /\ langs[1].name = "Go"
                       /\ langs[1].extension = ".go"
                       /\ langs[1].fileCount = 3
                       /\ langs[1].percentage.num = 100 * langs[1].percentage.den

\* the run on three .go files and one .md file has finished
C3_Witness == Finished(1) /\ ThreeGoOneMd(fs) /\ Len(analysis[1].languages) = 1

\* a finished run on a tree without any recognized file but with other files
C3_WitnessEmpty ==
    /\ Finished(1)
    /\ RecognizedFiles(fs) = {}
    /\ \E p \in DOMAIN fs.tree : fs.tree[p] = "file"
    /\ analysis[1].languages = <<>>

(***************************************************************************)
(* Priority lists the manifest properties are stated with                  *)
(***************************************************************************)
\* the root package.json was read and parsed
ManifestParsed(f) ==
    /\ Searchable(f.rootKind)
    /\ <<"package.json">> \in DOMAIN f.tree
    /\ f.tree[<<"package.json">>] = "file"
    /\ f.pkgJson.parses

\* the value paired with the first key of chain that m has, "" if none
FirstHit(chain, m) == { i \in DOMAIN chain : \A j \in 1..(i - 1) : chain[j][1] \notin DOMAIN m }
                      \cap { i \in DOMAIN chain : chain[i][1] \in DOMAIN m }

Winner(chain, m) ==
    IF FirstHit(chain, m) = {} THEN <<"", "">> ELSE chain[CHOOSE i \in FirstHit(chain, m) : TRUE]

FrameworkChain ==
    << <<"next", "Next.js">>, <<"express", "Express">>, <<"react", "React">>,
       <<"vue", "Vue.js">>, <<"svelte", "Svelte">> >>

OrmChain ==
    << <<"prisma", "Prisma">>, <<"@prisma/client", "Prisma">>, <<"drizzle-orm", "Drizzle">>,
       <<"typeorm", "TypeORM">>, <<"mongoose", "Mongoose">> >>

TestChain == << <<"vitest", "Vitest">>, <<"jest", "Jest">>, <<"mocha", "Mocha">> >>

StateChain ==
    << <<"zustand", "Zustand">>, <<"@reduxjs/toolkit", "Redux Toolkit">>,
       <<"jotai", "Jotai">>, <<"recoil", "Recoil">> >>

FormatterChain == << <<"prettier", "Prettier">>, <<"biome", "Biome">> >>

ExpectedFramework(deps) ==
    LET w == Winner(FrameworkChain, deps)
    IN  IF w[1] = "" THEN [set |-> FALSE, name |-> "", version |-> ""]
        ELSE [set |-> TRUE, name |-> w[2], version |-> deps[w[1]]]

ExpectedStyling(deps, dev) ==
    IF "tailwindcss" \in DOMAIN deps \cup DOMAIN dev THEN "Tailwind CSS"
    ELSE IF "styled-components" \in DOMAIN deps THEN "Styled Components"
    ELSE ""

ExpectedToolPatterns(deps, dev, pat) ==
    /\ pat.testFramework = Winner(TestChain, dev)[2]
    /\ pat.orm = Winner(OrmChain, deps)[2]
    /\ pat.styling = ExpectedStyling(deps, dev)
    /\ pat.stateManagement = Winner(StateChain, deps)[2]
    /\ pat.formatter = Winner(FormatterChain, dev)[2]

(***************************************************************************)
(* C4: when the root package.json parses, framework is the first of next,  *)
(* express, react, vue, svelte that is a key of dependencies, with the     *)
(* value of that key as version; without any of them no framework is set.  *)
(***************************************************************************)
C4_FrameworkPriority ==
    \A r \in Runs :
        (Finished(r) /\ ManifestParsed(fs)) =>
            analysis[r].framework = ExpectedFramework(fs.pkgJson.dependencies)

\* next and react are both dependencies and Next.js was recorded with the
\* version of next
C4_Witness ==
    /\ Finished(1)
    /\ ManifestParsed(fs)
    /\ {"next", "react"} \subseteq DOMAIN fs.pkgJson.dependencies
    /\ analysis[1].framework = [set |-> TRUE, name |-> "Next.js", version |-> "^14.2.0"]

(***************************************************************************)
(* C5: each pattern field is the first match of its own priority list,     *)
(* whatever framework matched: testFramework over devDependencies (vitest, *)
(* jest, mocha), ORM over dependencies, styling with tailwindcss in either *)
(* map before styled-components, state management over dependencies,       *)
(* formatter over devDependencies (prettier, biome); unset without match.  *)
(***************************************************************************)
C5_PatternPriority ==
    \A r \in Runs :
        (Finished(r) /\ ManifestParsed(fs)) =>
            ExpectedToolPatterns(fs.pkgJson.dependencies, fs.pkgJson.devDependencies,
                                 analysis[r].patterns)

\* vitest and jest are both devDependencies, a framework matched as well,
\* and Vitest was recorded
C5_Witness ==
    /\ Finished(1)
    /\ ManifestParsed(fs)
    /\ {"vitest", "jest"} \subseteq DOMAIN fs.pkgJson.devDependencies
    /\ analysis[1].framework.set
    /\ analysis[1].patterns.testFramework = "Vitest"

\* an ORM and a framework were recorded from the same manifest
C5_WitnessOrm ==
    /\ Finished(1)
    /\ analysis[1].framework.set
    /\ analysis[1].patterns.orm = "Drizzle"

(***************************************************************************)
(* C6: packages.manager is "poetry/pip" if pyproject.toml is found, else   *)
(* "pip" if requirements.txt is, else "go" if go.mod is, else "npm" if     *)
(* package.json parses, else empty; and whatever the manager, dependencies,*)
(* devDependencies, framework and pattern fields from package.json stay.   *)
(***************************************************************************)
Found(f, name) == Searchable(f.rootKind) /\ <<name>> \in DOMAIN f.tree

ExpectedManager(f) ==
    IF Found(f, "pyproject.toml") THEN "poetry/pip"
    ELSE IF Found(f, "requirements.txt") THEN "pip"
    ELSE IF Found(f, "go.mod") THEN "go"
    ELSE IF ManifestParsed(f) THEN "npm"
    ELSE ""

C6_ManagerLastWins ==
    \A r \in Runs :
        Finished(r) =>
            /\ analysis[r].packages.manager = ExpectedManager(fs)
            /\ ManifestParsed(fs) =>
                   /\ analysis[r].packages.dependencies = fs.pkgJson.dependencies
                   /\ analysis[r].packages.devDeps = fs.pkgJson.devDependencies
                   /\ analysis[r].framework = ExpectedFramework(fs.pkgJson.dependencies)
                   /\ ExpectedToolPatterns(fs.pkgJson.dependencies,
                                           fs.pkgJson.devDependencies, analysis[r].patterns)
                   /\ analysis[r].patterns.linter
                          = (IF "eslint" \in DOMAIN fs.pkgJson.devDependencies
                             THEN "ESLint" ELSE "")

\* package.json with next parses, go.mod exists too: the manager is "go"
\* and the framework from package.json is still there
C6_Witness ==
    /\ Finished(1)
    /\ ManifestParsed(fs)
    /\ Found(fs, "go.mod")
    /\ analysis[1].packages.manager = "go"
    /\ analysis[1].framework.name = "Next.js"
    /\ "next" \in DOMAIN analysis[1].packages.dependencies

\* all four manifests exist: the Python project file decides
C6_WitnessPython ==
    /\ Finished(1)
    /\ ManifestParsed(fs)
    /\ Found(fs, "go.mod") /\ Found(fs, "requirements.txt") /\ Found(fs, "pyproject.toml")
    /\ analysis[1].packages.manager = "poetry/pip"

(***************************************************************************)
(* C7: a root package.json that exists but does not parse is treated as    *)
(* absent: Analyze() returns no error, and its Analysis is the one of the  *)
(* same tree without package.json.                                         *)
(***************************************************************************)
Malformed(f) ==
    /\ <<"package.json">> \in DOMAIN f.tree
    /\ f.tree[<<"package.json">>] = "file"
    /\ ~f.pkgJson.parses

WithoutPackageJson(f) ==
    [f EXCEPT !.tree = [p \in DOMAIN f.tree \ {<<"package.json">>} |-> f.tree[p]],
              !.pkgJson = NoPkg]

\* langs is an enumeration of the language histogram of tree f
HistogramOf(f, langs) ==
    /\ \A i \in DOMAIN langs :
           /\ langs[i].fileCount = Cardinality(RecognizedWithExt(f, langs[i].extension))
           /\ langs[i].fileCount > 0
    /\ \A p \in RecognizedFiles(f) :
           \E i \in DOMAIN langs : langs[i].extension = LowerExtOf(Last(p))

C7_MalformedAsAbsent ==
    \A r \in Runs :
        (pc[r] = "done" /\ Malformed(fs)) =>
            LET g == WithoutPackageJson(fs)
                start == [NewAnalysis(g) EXCEPT !.languages = analysis[r].languages]
            IN  /\ ret[r] = "ok"
                /\ HistogramOf(g, analysis[r].languages)
                /\ analysis[r] = detectPatterns(analyzeStructure(g, detectFramework(g, start)))
                /\ analysis[r].packages.manager = ExpectedManager(g)
                /\ ~analysis[r].framework.set
                /\ analysis[r].packages.dependencies = <<>>
                /\ analysis[r].packages.devDeps = <<>>

\* the manifest does not parse although a dependency on next was decoded
\* from it; nothing was recorded from it and go.mod decided the manager
C7_Witness ==
    /\ Finished(1)
    /\ Malformed(fs)
    /\ "next" \in DOMAIN fs.pkgJson.dependencies
    /\ Found(fs, "go.mod")
    /\ analysis[1].packages.manager = "go"
    /\ ~analysis[1].framework.set

(***************************************************************************)
(* Entry-point candidates as the properties name them                      *)
(***************************************************************************)
EntryCandidates ==
    << "index.ts", "index.js", "main.ts", "main.js", "main.go", "main.py", "app.py" >>

FoundDir(f, name) == Found(f, name) /\ IsDirKind(f.tree[<<name>>])

ExpectedSrcDir(f) ==
    IF FoundDir(f, "src") THEN "src" ELSE IF FoundDir(f, "app") THEN "app" ELSE ""

AtRoot(f, i) == Found(f, EntryCandidates[i])

AtSrcDir(f, i) ==
    /\ ExpectedSrcDir(f) # ""
    /\ Searchable(f.tree[<<ExpectedSrcDir(f)>>])
    /\ <<ExpectedSrcDir(f), EntryCandidates[i]>> \in DOMAIN f.tree

Least(S) == CHOOSE i \in S : \A j \in S : i <= j

(***************************************************************************)
(* C8 as stated: if a candidate exists directly under the root, entryPoint *)
(* is the first root-level candidate in list order, and a path under       *)
(* srcDir is chosen only when no root-level candidate exists.              *)
(***************************************************************************)
C8_RootBeforeSrcDir ==
    \A r \in Runs :
        Finished(r) =>
            LET rootHits == { i \in DOMAIN EntryCandidates : AtRoot(fs, i) }
            IN  rootHits # {} =>
                    analysis[r].structure.entryPoint = EntryCandidates[Least(rootHits)]

(***************************************************************************)
(* C8 amended: entryPoint is decided by candidate name first: it is taken  *)
(* from the first name in list order that exists directly under the root   *)
(* or under srcDir, as the root-level path if that name exists under the   *)
(* root and as the srcDir path otherwise; it is unset if no name exists in *)
(* either place.  So src/index.ts wins over a root-level main.go.          *)
(***************************************************************************)
C8_FirstNameWins ==
    \A r \in Runs :
        Finished(r) =>
            LET hits == { i \in DOMAIN EntryCandidates : AtRoot(fs, i) \/ AtSrcDir(fs, i) }
            IN  analysis[r].structure.entryPoint =
                    IF hits = {} THEN ""
                    ELSE IF AtRoot(fs, Least(hits)) THEN EntryCandidates[Least(hits)]
                    ELSE ExpectedSrcDir(fs) \o "/" \o EntryCandidates[Least(hits)]

\* main.go directly under the root, index.ts under src: src/index.ts is chosen
C8_Witness ==
    /\ Finished(1)
    /\ Found(fs, "main.go")
    /\ <<"src", "index.ts">> \in DOMAIN fs.tree
    /\ analysis[1].structure.srcDir = "src"
    /\ analysis[1].structure.entryPoint = "src/index.ts"

(***************************************************************************)
(* C9 as stated: if the root path is missing or inaccessible, Analyze()    *)
(* fails with an error and returns no Analysis.                            *)
(***************************************************************************)
C9_BadRootFails ==
    \A r \in Runs :
        (pc[r] = "done" /\ fs.rootKind \in {"missing", "dir_none"}) => ret[r] = "error"

(***************************************************************************)
(* C10 as stated: two runs of Analyze() on an unchanged tree agree on      *)
(* every field and differ at most in the order of languages.               *)
(***************************************************************************)
SameEntries(s, t) ==
    /\ Len(s) = Len(t)
    /\ \A i \in DOMAIN s : \E j \in DOMAIN t : s[i] = t[j]
    /\ \A j \in DOMAIN t : \E i \in DOMAIN s : s[i] = t[j]

C10_Deterministic ==
    (Finished(1) /\ Finished(2)) =>
        /\ SameEntries(analysis[1].languages, analysis[2].languages)
        /\ [analysis[1] EXCEPT !.languages = <<>>] = [analysis[2] EXCEPT !.languages = <<>>]

(***************************************************************************)
(* C11 as stated: namingConvention and exportStyle follow the priority Go, *)
(* then Python, then TypeScript/JavaScript: with Go among the languages    *)
(* they are "camelCase/PascalCase" and "named (capitalized)" whatever else *)
(* is present, with Python and no Go "snake_case" and no exportStyle, with *)
(* TypeScript or JavaScript and neither of those "camelCase" and "mixed".  *)
(***************************************************************************)
LanguageNames(r) == { analysis[r].languages[i].name : i \in DOMAIN analysis[r].languages }

C11_NamingPriority ==
    \A r \in Runs :
        Finished(r) =>
            LET names == LanguageNames(r)
                pat == analysis[r].patterns
            IN  IF "Go" \in names
                THEN /\ pat.namingConvention = "camelCase/PascalCase"
                     /\ pat.exportStyle = "named (capitalized)"
                ELSE IF "Python" \in names
                THEN /\ pat.namingConvention = "snake_case"
                     /\ pat.exportStyle = ""
                ELSE IF "TypeScript" \in names \/ "JavaScript" \in names
                THEN /\ pat.namingConvention = "camelCase"
                     /\ pat.exportStyle = "mixed"
                ELSE /\ pat.namingConvention = ""
                     /\ pat.exportStyle = ""

(***************************************************************************)
(* C12: structure.type is "monorepo" exactly when packages, apps,          *)
(* pnpm-workspace.yaml, lerna.json or turbo.json is found directly under   *)
(* the root, and "standard" otherwise, whatever folders, srcDir and the    *)
(* manifests are.                                                          *)
(***************************************************************************)
MonorepoIndicators == {"packages", "apps", "pnpm-workspace.yaml", "lerna.json", "turbo.json"}

C12_MonorepoType ==
    \A r \in Runs :
        Finished(r) =>
            analysis[r].structure.type =
                IF \E n \in MonorepoIndicators : Found(fs, n) THEN "monorepo" ELSE "standard"

\* turbo.json alone makes a monorepo, next to a src folder
C12_Witness ==
    /\ Finished(1)
    /\ { n \in MonorepoIndicators : Found(fs, n) } = {"turbo.json"}
    /\ analysis[1].structure.srcDir = "src"
    /\ analysis[1].structure.type = "monorepo"

\* a src folder and no indicator: standard
C12_WitnessStandard ==
    /\ Finished(1)
    /\ FoundDir(fs, "src")
    /\ analysis[1].structure.type = "standard"

(***************************************************************************)
(* C13: structure.folders is the scan list src, app, lib, components,      *)
(* pages, api, utils, hooks, services, models, types restricted to the     *)
(* names that are directories directly under the root, in that order;      *)
(* srcDir is "src" if src is among them, else "app" if app is, else unset. *)
(***************************************************************************)
ScanList ==
    << "src", "app", "lib", "components", "pages", "api", "utils", "hooks",
       "services", "models", "types" >>

C13_FoldersInScanOrder ==
    \A r \in Runs :
        Finished(r) =>
            /\ analysis[r].structure.folders = SelectSeq(ScanList, LAMBDA n : FoundDir(fs, n))
            /\ analysis[r].structure.srcDir =
                   IF FoundDir(fs, "src") THEN "src"
                   ELSE IF FoundDir(fs, "app") THEN "app"
                   ELSE ""

\* app and types are directories and lib is a file: folders is app, types
\* and srcDir is app
C13_Witness ==
    /\ Finished(1)
    /\ Found(fs, "lib") /\ ~FoundDir(fs, "lib")
    /\ analysis[1].structure.folders = <<"app", "types">>
    /\ analysis[1].structure.srcDir = "app"

(***************************************************************************)
(* C14: on an existing, empty directory Analyze() returns without error an *)
(* Analysis with no languages, no framework, type "standard", no folders,  *)
(* no srcDir, no entryPoint, no manager, no patterns and no decisions.     *)
(***************************************************************************)
EmptyDirectory(f) == f.rootKind = "dir" /\ DOMAIN f.tree = {}

C14_EmptyDirectory ==
    \A r \in Runs :
        (pc[r] = "done" /\ EmptyDirectory(fs)) =>
            /\ ret[r] = "ok"
            /\ analysis[r] = [NewAnalysis(fs) EXCEPT !.structure.type = "standard"]

C14_Witness ==
    /\ Finished(1)
    /\ EmptyDirectory(fs)
    /\ analysis[1].languages = <<>>
    /\ analysis[1].structure.type = "standard"

(***************************************************************************)
(* C15: no step of Analyze() changes the filesystem or a field of an       *)
(* Analyzer (rootPath, the ignore list), also in calls that meet entries   *)
(* they cannot read or a package.json that does not parse.                 *)
(***************************************************************************)
C15_ReadOnly == [][fs' = fs /\ analyzers' = analyzers]_vars

\* a call has finished on a tree with a directory that cannot be listed
C15_Witness ==
    /\ Finished(1)
    /\ \E p \in DOMAIN fs.tree : StatOK(fs, p) /\ fs.tree[p] \in {"dir_x", "dir_none"}
    /\ analyzers[recv[1]] = [rootPath |-> RootPath(fs), gitIgnore |-> gitIgnore]

\* a call has finished on a tree whose package.json does not parse
C15_WitnessMalformed ==
    /\ Finished(1)
    /\ Malformed(fs)
    /\ analyzers[recv[1]] = [rootPath |-> RootPath(fs), gitIgnore |-> gitIgnore]

(***************************************************************************)
(* C16: of two calls of Analyze() that run at the same time, on the same   *)
(* root or on different ones, on one Analyzer value or on two, each        *)
(* returns an Analysis it returns when it runs alone: the histogram of the *)
(* tree below its own root and what detection finds there.                 *)
(***************************************************************************)
AloneResult(f, an) ==
    LET langs == an.languages
        total == Cardinality(RecognizedFiles(f))
        start == [NewAnalysis(f) EXCEPT !.languages = langs]
    IN  /\ HistogramOf(f, langs)
        /\ \A i, j \in DOMAIN langs : langs[i].extension = langs[j].extension => i = j
        /\ \A i \in DOMAIN langs :
               langs[i] = LanguageOf(langs[i].extension, langs[i].fileCount, total)
        /\ an = detectPatterns(analyzeStructure(f, detectFramework(f, start)))

C16_Isolated ==
    \A r \in Runs :
        pc[r] = "done" => (ret[r] = "ok" /\ AloneResult(View(r), analysis[r]))

\* one call has returned its histogram while the other, on the same Analyzer
\* value, is in the middle of its walk
C16_Witness ==
    /\ Finished(1)
    /\ analysis[1].languages # <<>>
    /\ recv[1] = recv[2]
    /\ pc[2] = "walk" /\ totalFiles[2] > 0 /\ stack[2] # <<>>

\* both calls on one Analyzer value have returned the same Analysis
C16_WitnessBoth ==
    /\ Finished(1) /\ Finished(2)
    /\ recv[1] = recv[2]
    /\ analysis[1].languages # <<>>
    /\ analysis[1] = analysis[2]

\* the calls have different roots and return different histograms
C16_WitnessRoots ==
    /\ Finished(1) /\ Finished(2)
    /\ analyzers[recv[1]].rootPath # analyzers[recv[2]].rootPath
    /\ analysis[1].languages # <<>>
    /\ analysis[2].languages # <<>>
    /\ LanguageNames(1) # LanguageNames(2)

\* the two calls are in the middle of their walks at the same time
C16_WitnessOverlap ==
    /\ pc[1] = "walk" /\ pc[2] = "walk"
    /\ totalFiles[1] > 0 /\ totalFiles[2] > 0
    /\ stack[1] # <<>> /\ stack[2] # <<>>

(***************************************************************************)
(* C17 as stated: after any sequence of Save, Clear and branch switches,   *)
(* Load() on branch B returns nothing or a session whose Branch is B.      *)
(***************************************************************************)
C17_BranchScoped ==
    \A b \in Branches :
        (loaded.called /\ loaded.found /\ OnBranch(b)) => loaded.session.Branch = b

(***************************************************************************)
(* C18 as stated: after Save(s) with s.Branch empty on branch B and no     *)
(* Save or Clear on B since, Load() on B returns a session with the ID,    *)
(* Branch = B, Task, Goal, Approaches, Decisions, State, NextSteps and     *)
(* Notes of s.                                                             *)
(***************************************************************************)
SameContent(s, t) ==
    /\ s.ID = t.ID /\ s.Branch = t.Branch /\ s.Task = t.Task /\ s.Goal = t.Goal
    /\ s.Approaches = t.Approaches /\ s.Decisions = t.Decisions /\ s.State = t.State
    /\ s.NextSteps = t.NextSteps /\ s.Notes = t.Notes

C18_SaveLoadRoundTrip ==
    \A b \in Branches :
        (loaded.called /\ OnBranch(b) /\ lastSave[b].set) =>
            /\ loaded.found
            /\ lastSave[b].session.Branch = b
            /\ SameContent(loaded.session, lastSave[b].session)

(***************************************************************************)
(* C19 as stated: for any text and context, List() after Add(text,         *)
(* context) returns the decisions listed before, unchanged and in the same *)
(* order, followed by one decision with the ID Add returned, Text = text   *)
(* and Context = context.                                                  *)
(***************************************************************************)
C19_AddListRoundTrip ==
    (listed.valid /\ lastCall.op = "add") =>
        /\ Len(listed.decisions) = Len(before) + 1
        /\ SubSeq(listed.decisions, 1, Len(before)) = before
        /\ LET new == listed.decisions[Len(listed.decisions)]
           IN  /\ new.ID = lastCall.id
               /\ new.Text = lastCall.text
               /\ new.Context = lastCall.context

(***************************************************************************)
(* C20 as stated: List() after a Delete(id) of a listed ID returns the     *)
(* other decisions listed before, in their order and with unchanged ID,    *)
(* Date, Text and Context, and no decision with that ID.                   *)
(***************************************************************************)
C20_DeleteRemovesOne ==
    (listed.valid /\ lastCall.op = "delete" /\ lastCall.ok) =>
        listed.decisions = SelectSeq(before, LAMBDA d : d.ID # lastCall.id)

(***************************************************************************)
(* C21: the score satisfies total = completeness + freshness + decisions,  *)
(* with completeness 10 per context file that is found and so between 0    *)
(* and 40, freshness between 0 and 30, decisions between 5 and 30 and      *)
(* total at most 100, for every combination of files, last-sync age (also  *)
(* in the future) and number of decisions.                                 *)
(***************************************************************************)
ContextFiles ==
    { <<".cursorrules">>, <<"CLAUDE.md">>, <<".github", "copilot-instructions.md">>,
      <<".contextpilot", "config.yaml">> }

ScoreWithinBounds(f, s) ==
    /\ s.total = s.completeness + s.freshness + s.decisions
    /\ s.completeness =
           10 * Cardinality({ p \in ContextFiles : p \in DOMAIN f.tree /\ Readable(f, p) })
    /\ 0 <= s.completeness /\ s.completeness <= 40
    /\ 0 <= s.freshness /\ s.freshness <= 30
    /\ 5 <= s.decisions /\ s.decisions <= 30
    /\ s.total <= 100

C21_ScoreBounds ==
    /\ ScoreWithinBounds(fs, calculateScore(fs, config, decisionsFile))
    /\ scorePc = "done" => score = calculateScore(fs, config, decisionsFile)

\* all four files, a lastSync in the future and five decisions: 40 + 25 + 30
C21_Witness ==
    /\ scorePc = "done"
    /\ config.hasLastSync /\ config.ageHours < -24
    /\ score.completeness = 40
    /\ score.freshness = 25
    /\ score.decisions = 30
    /\ score.total = 95

\* the highest score
C21_WitnessFull == scorePc = "done" /\ score.total = 100

\* .contextpilot cannot be searched: nothing is found in it
C21_WitnessNotInitialized == scorePc = "n/a" /\ score = ZeroScore

C21_WitnessUnreadable ==
    /\ scorePc = "done"
    /\ configPath \in DOMAIN fs.tree
    /\ score.freshness = 0
    /\ score.decisions = 5

(***************************************************************************)
(* C23 as stated: starting from no decisions file, after any sequence of   *)
(* Add and Delete calls the IDs List() returns are strictly increasing in  *)
(* file order, hence pairwise distinct, and all at least 1.                *)
(***************************************************************************)
StrictlyIncreasing(decisions) ==
    \A i \in 1..(Len(decisions) - 1) : decisions[i].ID < decisions[i + 1].ID

C23_IdsIncreasing ==
    listed.valid =>
        /\ StrictlyIncreasing(listed.decisions)
        /\ \A i, j \in DOMAIN listed.decisions :
               i # j => listed.decisions[i].ID # listed.decisions[j].ID
        /\ \A i \in DOMAIN listed.decisions : listed.decisions[i].ID >= 1

(***************************************************************************)
(* C24 as stated: Add assigns ID 1 when no decision is listed and          *)
(* otherwise the ID of the last listed decision plus 1; after a Delete     *)
(* that removed the decision with the highest ID the next Add returns that *)
(* ID again, and after a Delete of any other decision the next Add returns *)
(* the ID it would have returned before the Delete.                        *)
(***************************************************************************)
NextIdOf(decisions) ==
    IF decisions = <<>> THEN 1 ELSE decisions[Len(decisions)].ID + 1

HighestId(decisions) ==
    CHOOSE m \in { decisions[i].ID : i \in DOMAIN decisions } :
        \A i \in DOMAIN decisions : decisions[i].ID <= m

AddStep == calls' = calls + 1 /\ lastCall'.op = "add"

Deleted == lastCall.op = "delete" /\ lastCall.ok

AddAssignsNext == AddStep => lastCall'.id = NextIdOf(ListOf(decisionsFile))

Left == SelectSeq(before, LAMBDA d : d.ID # lastCall.id)

C24_WitnessReused ==
    /\ lastCall.op = "add"
    /\ calls = 3
    /\ Len(before) = 2
    /\ lastCall.id = 3
    /\ before[2].ID = 2

(***************************************************************************)
(* C25: after any sequence of successful Save calls history.json holds at  *)
(* most 100 sessions, exactly the most recent min(n, 100) saved snapshots  *)
(* in save order; GetHistory(limit) with limit > 0 returns at most limit   *)
(* of them, the most recent ones whose Branch is the current branch.       *)
(***************************************************************************)
Smaller(a, b) == IF a < b THEN a ELSE b

MostRecent(sessions, n) == SubSeq(sessions, Len(sessions) - n + 1, Len(sessions))

C25_HistoryKeepsLatest ==
    /\ Len(history) <= 100
    /\ Len(history) = Smaller(Len(saved), 100)
    /\ [i \in DOMAIN history |-> Unmarshal(history[i])] = MostRecent(saved, Len(history))
    /\ (shown.called /\ shown.limit > 0) =>
           LET onBranch == BranchFilter(MostRecent(saved, Len(history)),
                                        getCurrentBranch(gitHead))
           IN  /\ Len(shown.sessions) <= shown.limit
               /\ shown.sessions = MostRecent(onBranch, Smaller(shown.limit, Len(onBranch)))

\* the 101st and later saves: the oldest snapshots are gone
C25_Witness ==
    /\ Len(saved) > 101
    /\ clock >= 2
    /\ Len(history) = 100
    /\ Unmarshal(history[1]) = saved[Len(saved) - 99]

\* GetHistory cut the sessions of the branch down to the limit
C25_WitnessLimit ==
    /\ shown.called
    /\ shown.limit = 2
    /\ Len(shown.sessions) = 2
    /\ clock >= 1
    /\ Len(BranchFilter(saved, getCurrentBranch(gitHead))) > 2

(***************************************************************************)
(* C26: Save generates an ID and CreatedAt only for a session whose ID is  *)
(* empty and otherwise leaves both unchanged and refreshes UpdatedAt; over *)
(* the updates made in a row on one branch, with no Clear in between,      *)
(* Load() keeps returning the ID and CreatedAt the first of them stored,   *)
(* and CreatedAt <= UpdatedAt.                                             *)
(***************************************************************************)
C26_IdentityKept ==
    /\ lastUpdate.op # "none" =>
           /\ lastUpdate.stored.UpdatedAt = lastUpdate.at
           /\ IF lastUpdate.found
              THEN /\ lastUpdate.prior.ID # ""
                   /\ lastUpdate.stored.ID = lastUpdate.prior.ID
                   /\ lastUpdate.stored.CreatedAt = lastUpdate.prior.CreatedAt
              ELSE /\ lastUpdate.stored.ID # ""
                   /\ lastUpdate.stored.CreatedAt = lastUpdate.at
    /\ (loaded.called /\ streak.set /\ TakenFor(streak.branch)) =>
           /\ loaded.found
           /\ loaded.session.ID = streak.ID
           /\ loaded.session.CreatedAt = streak.CreatedAt
           /\ loaded.session.CreatedAt <= loaded.session.UpdatedAt

\* Load() after three updates on one branch, with a checkout away and back
C26_Witness ==
    /\ loaded.called /\ loaded.found
    /\ streak.set /\ TakenFor(streak.branch)
    /\ clock = 2
    /\ lastUpdate.found
    /\ loaded.session.CreatedAt = 1
    /\ loaded.session.UpdatedAt = 2
    /\ loaded.session.ID = "1"

(***************************************************************************)
(* C27: contextpilot_save always replaces the stored Task with the given   *)
(* task, also when it is empty or missing; it replaces Goal, State and     *)
(* Notes only when the argument is not empty, and otherwise leaves them,   *)
(* and always Approaches, NextSteps and Decisions, as saved for the        *)
(* current branch.                                                         *)
(***************************************************************************)
Given(k, was) == IF Arg(lastUpdate.args, k) # "" THEN Arg(lastUpdate.args, k) ELSE was

C27_ToolSaveMerges ==
    lastUpdate.op = "toolSave" =>
        /\ lastUpdate.stored.Task = Arg(lastUpdate.args, "task")
        /\ lastUpdate.stored.Goal = Given("goal", lastUpdate.prior.Goal)
        /\ lastUpdate.stored.State = Given("state", lastUpdate.prior.State)
        /\ lastUpdate.stored.Notes = Given("notes", lastUpdate.prior.Notes)
        /\ lastUpdate.stored.Approaches = lastUpdate.prior.Approaches
        /\ lastUpdate.stored.NextSteps = lastUpdate.prior.NextSteps
        /\ lastUpdate.stored.Decisions = lastUpdate.prior.Decisions

\* a call without arguments on a session with a task, a goal and approaches:
\* the task is emptied, the rest is kept
C27_Witness ==
    /\ lastUpdate.op = "toolSave"
    /\ lastUpdate.args = <<>>
    /\ lastUpdate.found
    /\ lastUpdate.prior.Task # ""
    /\ lastUpdate.prior.Goal # ""
    /\ lastUpdate.prior.Approaches # <<>>
    /\ lastUpdate.stored.Task = ""
    /\ lastUpdate.stored.Goal = lastUpdate.prior.Goal

\* a goal given over a saved one
C27_WitnessReplaced ==
    /\ lastUpdate.op = "toolSave"
    /\ lastUpdate.found
    /\ lastUpdate.prior.Goal = "ship it"
    /\ lastUpdate.stored.Goal = "go live"
    /\ lastUpdate.prior.ID = lastUpdate.stored.ID

(***************************************************************************)
(* C22 as stated: requests are answered one at a time in input order;      *)
(* every non-empty line gets exactly one response, except a request with   *)
(* method "initialized", which gets none; a line that cannot be parsed     *)
(* gets error -32700 with no id, an unknown method error -32601, and every *)
(* other response carries the id of its request; no input line stops the   *)
(* loop before the end of input.                                           *)
(***************************************************************************)
Unparseable(text) ==
    \/ text.form \in {"invalid", "scalar"}
    \/ text.form = "object" /\ text.method.t = "number"

MethodOf(text) == IF text.form = "object" THEN text.method.s ELSE ""

RequestId(text) ==
    IF text.form = "object" /\ text.id.t \in {"number", "string"} THEN text.id ELSE NoMember

Answer(e) ==
    LET text == e.line.text
    IN  IF text.form = "blank" THEN e.out = <<>>
        ELSE IF Unparseable(text)
        THEN /\ Len(e.out) = 1
             /\ e.out[1].error.set /\ e.out[1].error.code = -32700
             /\ e.out[1].id = NoMember
        ELSE IF MethodOf(text) = "initialized" THEN e.out = <<>>
        ELSE /\ Len(e.out) = 1
             /\ MethodOf(text) \notin Methods =>
                    e.out[1].error.set /\ e.out[1].error.code = -32601
             /\ e.out[1].id = RequestId(text)

RECURSIVE Printed(_)
Printed(entries) ==
    IF entries = <<>> THEN <<>> ELSE Head(entries).out \o Printed(Tail(entries))

C22_OneResponsePerLine ==
    /\ \A i \in DOMAIN answered : Answer(answered[i])
    /\ stdout = Printed(answered)
    /\ serverPc \in {"scanning", "end of input"}

====
